---- MODULE Spec2Model ----
(***************************************************************************)
(* Credential lifecycle of the maximize proxy: TokenStorage (storage.rs)   *)
(* and OAuthManager (oauth.rs), driven by concurrent inbound requests      *)
(* (proxy.rs anthropic_messages -> get_valid_token), by direct loads       *)
(* (main.rs run_server_only) and by the console's logout (cli.rs).         *)
(*                                                                         *)
(* Time is the wall clock in unix seconds (chrono Utc::now().timestamp()). *)
(* In Spec the storage calls of a request handler are separate steps, so   *)
(* the clock and the other handlers may advance between them (the runtime  *)
(* is tokio's multi-threaded one).  In SpecStore the console's handlers    *)
(* run to completion one at a time.  SpecClear follows a logout by reads   *)
(* and one request, SpecFile takes the token file's reads and writes apart *)
(* into their system calls, SpecLogin is the authorization-code exchange   *)
(* and SpecAuth the router's key check.  SpecSanitize applies the request  *)
(* transformer to request bodies, SpecOpen is the routes outside the key   *)
(* check, and SpecMsg one message request from the key check to its        *)
(* answer (SpecMsgLive: with a fairly scheduled handler).  SpecInject      *)
(* applies the identity injection to system fields, SpecBeta composes the  *)
(* anthropic-beta header, and SpecCli is the console starting and stopping *)
(* the proxy server.  File operations are assumed to succeed.              *)
(***************************************************************************)
EXTENDS Integers, Sequences, FiniteSets, TLC

(***************************************************************************)
(* Program constants                                                       *)
(***************************************************************************)
ExpiryBuffer == 60
DefaultExpiresIn == 86400
TokenLength == 30

(***************************************************************************)
(* Bounds of the model                                                     *)
(***************************************************************************)
NumProcs == 2
MaxTicks == 2
MaxIssued == 2
MaxSessions == 2
MaxLen == 3
MaxHeaderLen == 2
MaxTopK == 2
MaxTools == 1
MaxBlocks == 2
MaxBetaLen == 5
MaxServers == 2

T0 == 1000
TickSteps == {1, ExpiryBuffer, DefaultExpiresIn - ExpiryBuffer - 1}
Procs == 1..NumProcs

(***************************************************************************)
(* Values                                                                  *)
(***************************************************************************)
NoVar == "<unset>"
BlankStrings == {"", " "}
IsBlank(s) == s \in BlankStrings

\* str::parse::<i64>() on the strings the model uses for numeric variables
NumericStrings == {"1030", "3600"}
ParseI64(s) ==
  IF s = "1030" THEN [ok |-> TRUE, val |-> 1030]
  ELSE IF s = "3600" THEN [ok |-> TRUE, val |-> 3600]
  ELSE [ok |-> FALSE, val |-> 0]

TokenData(a, r, x) == [access_token |-> a, refresh_token |-> r, expires_at |-> x]

\* Result<Option<TokenData>>
OkNone == [k |-> "none"]
OkSome(d) == [k |-> "some", data |-> d]
LoadErr == [k |-> "err"]

\* Option<String> / Result<Option<String>>
NoToken == [k |-> "none"]
SomeToken(s) == [k |-> "some", token |-> s]
TokenErr == [k |-> "err"]

\* Option<i64>
NoInt == [k |-> "none"]
SomeInt(n) == [k |-> "some", v |-> n]
unwrap_or(o, d) == IF o.k = "some" THEN o.v ELSE d

\* the token file on disk
AbsentFile == [k |-> "absent"]
MalformedFile == [k |-> "malformed"]
JsonFile(d) == [k |-> "json", data |-> d]
\* the file between the open-with-truncate and the write of fs::write
EmptyFile == [k |-> "empty"]

(***************************************************************************)
(* TokenStorage (storage.rs)                                               *)
(***************************************************************************)
save_tokens(access_token, refresh_token, expires_in, t) ==
  JsonFile(TokenData(access_token, refresh_token, t + expires_in))

try_load_from_file(f) ==
  IF f.k = "absent" THEN OkNone
  ELSE IF f.k \in {"malformed", "empty"} THEN LoadErr
  ELSE OkSome(f.data)

save_token_data(data) == JsonFile(data)

\* variant: overrides that are set count even when blank
UsableOverrides_SetOnly(e) ==
  /\ e.access # NoVar
  /\ e.refresh # NoVar

UsableOverrides(e) ==
  /\ e.access # NoVar
  /\ e.refresh # NoVar
  /\ ~IsBlank(e.access)
  /\ ~IsBlank(e.refresh)

EnvExpiresIn(e) ==
  IF e.expires_in # NoVar /\ ParseI64(e.expires_in).ok
  THEN ParseI64(e.expires_in).val
  ELSE DefaultExpiresIn

\* variant: the relative override is preferred over the absolute one
EnvExpiresAt_RelativeFirst(e, t) ==
  IF e.expires_in # NoVar /\ ParseI64(e.expires_in).ok
  THEN t + ParseI64(e.expires_in).val
  ELSE IF e.expires_at # NoVar /\ ParseI64(e.expires_at).ok
  THEN ParseI64(e.expires_at).val
  ELSE t + DefaultExpiresIn

EnvExpiresAt(e, t) ==
  IF e.expires_at # NoVar
  THEN IF ParseI64(e.expires_at).ok
       THEN ParseI64(e.expires_at).val
       ELSE t + EnvExpiresIn(e)
  ELSE t + EnvExpiresIn(e)

\* variant: the persisted expiry is never reused
ReusesExisting_Never(existing, e) == FALSE

ReusesExisting(existing, e) ==
  existing.k = "some" /\ existing.data.access_token = e.access

\* variant: a file that cannot be read fails the call in the override branch too
load_tokens_FileErrorFatal(f, e, t) ==
  IF UsableOverrides(e)
  THEN LET existing == try_load_from_file(f) IN
       IF existing.k = "err"
       THEN [res |-> LoadErr, file |-> f]
       ELSE IF ReusesExisting(existing, e)
       THEN [res |-> existing, file |-> f]
       ELSE LET token_data == TokenData(e.access, e.refresh, EnvExpiresAt(e, t))
            IN [res |-> OkSome(token_data), file |-> save_token_data(token_data)]
  ELSE [res |-> try_load_from_file(f), file |-> f]

\* returns the call's result and the file it leaves behind
load_tokens(f, e, t) ==
  IF UsableOverrides(e)
  THEN LET existing == try_load_from_file(f) IN
       IF ReusesExisting(existing, e)
       THEN [res |-> existing, file |-> f]
       ELSE LET token_data == TokenData(e.access, e.refresh, EnvExpiresAt(e, t))
            IN [res |-> OkSome(token_data), file |-> save_token_data(token_data)]
  ELSE [res |-> try_load_from_file(f), file |-> f]

clear_tokens(f) == AbsentFile

\* variant: the buffer boundary itself still counts as valid
ExpiredAt_Strict(expires_at, t) == t > expires_at - ExpiryBuffer

ExpiredAt(expires_at, t) == t >= expires_at - ExpiryBuffer

is_token_expired(f, e, t) ==
  LET l == load_tokens(f, e, t) IN
  [res |-> IF l.res.k = "some" THEN ExpiredAt(l.res.data.expires_at, t) ELSE TRUE,
   file |-> l.file]

\* variant: the wrong field of the record is returned
get_access_token_WrongField(f, e, t) ==
  LET x == is_token_expired(f, e, t) IN
  IF x.res
  THEN [res |-> NoToken, file |-> x.file]
  ELSE LET l == load_tokens(x.file, e, t) IN
       [res |-> IF l.res.k = "some" THEN SomeToken(l.res.data.refresh_token) ELSE NoToken,
        file |-> l.file]

get_access_token(f, e, t) ==
  LET x == is_token_expired(f, e, t) IN
  IF x.res
  THEN [res |-> NoToken, file |-> x.file]
  ELSE LET l == load_tokens(x.file, e, t) IN
       [res |-> IF l.res.k = "some" THEN SomeToken(l.res.data.access_token) ELSE NoToken,
        file |-> l.file]

get_refresh_token(f, e, t) ==
  LET l == load_tokens(f, e, t) IN
  [res |-> IF l.res.k = "some" THEN SomeToken(l.res.data.refresh_token) ELSE NoToken,
   file |-> l.file]

\* TokenStatus, without the display strings
TokenStatus(l, t) ==
  IF l.k = "some"
  THEN IF t >= l.data.expires_at
       THEN [has_tokens |-> TRUE, is_expired |-> TRUE,
             expires_at |-> SomeInt(l.data.expires_at), expires_in_seconds |-> NoInt]
       ELSE [has_tokens |-> TRUE, is_expired |-> FALSE,
             expires_at |-> SomeInt(l.data.expires_at),
             expires_in_seconds |-> SomeInt(l.data.expires_at - t)]
  ELSE [has_tokens |-> FALSE, is_expired |-> TRUE,
        expires_at |-> NoInt, expires_in_seconds |-> NoInt]

get_status(f, e, t) ==
  LET l == load_tokens(f, e, t) IN
  [res |-> TokenStatus(l.res, t), file |-> l.file]

(***************************************************************************)
(* Inputs: the environment of the process and the file a previous run left *)
(***************************************************************************)
EnvAccess == "a0"
EnvRefresh == "r0"

Env(a, r, xat, xin) == [access |-> a, refresh |-> r, expires_at |-> xat, expires_in |-> xin]

\* environments of the request specification
ReqEnvChoices ==
  {Env(NoVar, NoVar, NoVar, NoVar),
   Env(EnvAccess, EnvRefresh, NoVar, NoVar),
   Env(EnvAccess, EnvRefresh, "1030", NoVar)}

\* files of the request specification
ReqFileChoices ==
  {AbsentFile, MalformedFile,
   JsonFile(TokenData("a0", "r0", T0 + 61)),
   JsonFile(TokenData("a9", "r9", T0 + 61)),
   JsonFile(TokenData("a9", "r9", T0 + 30))}

EnvChoices ==
  {Env(NoVar, NoVar, NoVar, NoVar),
   Env(EnvAccess, NoVar, NoVar, NoVar),
   Env(" ", EnvRefresh, NoVar, NoVar),
   Env(EnvAccess, "", NoVar, NoVar)}
  \cup {Env(EnvAccess, EnvRefresh, xat, xin) :
          xat \in {NoVar, "abc", "1030"}, xin \in {NoVar, "abc", "3600"}}

FileChoices ==
  {AbsentFile, MalformedFile,
   JsonFile(TokenData("a0", "r0", T0 + 61)),
   JsonFile(TokenData("a0", "r9", T0 + 61)),
   JsonFile(TokenData("a9", "r9", T0 + 61)),
   JsonFile(TokenData("a9", "r9", T0 + 30)),
   JsonFile(TokenData("a0", "r0", T0 - 10))}

\* tokens the provider hands out, in order of issue
IssuedAccess(n) == IF n = 1 THEN "a1" ELSE IF n = 2 THEN "a2" ELSE IF n = 3 THEN "a3" ELSE "a4"
IssuedRefresh(n) == IF n = 1 THEN "r1" ELSE IF n = 2 THEN "r2" ELSE IF n = 3 THEN "r3" ELSE "r4"
ResponseExpiresIn == {NoInt, SomeInt(3600)}

(***************************************************************************)
(* State                                                                   *)
(***************************************************************************)
VARIABLES
  now,       \* Utc::now().timestamp()
  ticks,     \* number of clock advances so far
  env,       \* MAXIMIZE_ACCESS_TOKEN, _REFRESH_TOKEN, _TOKEN_EXPIRES_AT, _TOKEN_EXPIRES_IN
  file,      \* the token file (TokenStorage.token_path)
  req,       \* per inbound request: position in get_valid_token and its locals
  issued,    \* token pairs the provider has issued so far
  consumed,  \* refresh tokens the provider has rotated away
  obs,       \* the last direct storage call since the last save or clear, and its result
  stored,    \* the token file as it was when the first reader began
  rd,        \* per reader: position inside load_tokens and what it read
  wr,        \* the save_tokens call in progress
  pkce,      \* the PKCE file (OAuthManager.pkce_file)
  xchg,      \* the exchange_code call in progress, and the outcome of the last one
  sessions,  \* PKCE sessions generated so far
  used,      \* verifiers of the PKCE sessions that successful exchanges loaded
  api_key,   \* AppState.api_key
  http,      \* the last request to the router and its answer
  xform,     \* a request body on its way through the request transformer
  msg,       \* the anthropic_messages call in progress
  twin,      \* a second token file, and what the open routes answer from it
  cli        \* the console: its position, server handle, running indicator, server threads

fileIO == <<stored, rd, wr>>
loginVars == <<pkce, xchg, sessions, used>>
authVars == <<api_key, http>>
proxyVars == <<xform, msg, twin>>
vars ==
  <<now, ticks, env, file, req, issued, consumed, obs, fileIO, loginVars, authVars, proxyVars,
    cli>>

IdleReq ==
  [pc |-> "idle", expired |-> FALSE, seen |-> NoToken, peers |-> {},
   rt |-> NoToken, cause |-> "", refreshed |-> "none", got |-> NoToken,
   dirty |-> FALSE, res |-> NoToken]

NoObs == [op |-> "none", n |-> 0, t |-> 0]

IdleReader == [pc |-> "idle", t |-> 0, saw |-> AbsentFile, l |-> OkNone, data |-> AbsentFile]
IdleWriter == [pc |-> "idle", data |-> AbsentFile]

\* the PKCE file on disk
AbsentPkce == [k |-> "absent"]
MalformedPkce == [k |-> "malformed"]
PkceData(code_verifier, state) == [k |-> "json", code_verifier |-> code_verifier, state |-> state]

\* TokenRequest, without the fixed fields
TokenRequest(code, state, code_verifier) ==
  [code |-> code, state |-> state, code_verifier |-> code_verifier]

IdleXchg ==
  [pc |-> "idle", input |-> <<>>, treq |-> TokenRequest(<<>>, <<>>, <<>>),
   session |-> AbsentPkce, got |-> "", outcome |-> "none"]

\* Option<String> of AppState.api_key; header values of a request
NoKey == [k |-> "none"]
SomeKey(s) == [k |-> "some", key |-> s]
NoHeader == [k |-> "none"]
OpaqueHeader == [k |-> "opaque"]
TextHeader(s) == [k |-> "text", text |-> s]
NoRequest == [route |-> "none"]

\* nothing but the credential store is in use
NotStored == [k |-> "none"]
FileIOIdle == stored = NotStored /\ rd = [r \in Procs |-> IdleReader] /\ wr = IdleWriter
LoginIdle == pkce = AbsentPkce /\ xchg = IdleXchg /\ sessions = 0 /\ used = <<>>
AuthIdle == api_key = NoKey /\ http = NoRequest
NoCall == [pc |-> "none"]
NoTwin == [k |-> "none"]
ProxyIdle == xform = NoCall /\ msg = NoCall /\ twin = NoTwin
CliIdle == cli = NoCall
NoSave == [k |-> "none"]
Saved(d) == [k |-> "some", data |-> d]

(***************************************************************************)
(* The clock                                                               *)
(***************************************************************************)
Tick ==
  /\ ticks < MaxTicks
  /\ \E d \in TickSteps : now' = now + d
  /\ ticks' = ticks + 1
  /\ UNCHANGED <<env, file, req, issued, consumed, obs, fileIO, loginVars, authVars, proxyVars,
                 cli>>

(***************************************************************************)
(* Direct calls on the storage                                             *)
(***************************************************************************)
\* variant: the file is emptied rather than removed
ClearTokens_Truncates ==
  /\ file.k # "absent"
  /\ file' = EmptyFile
  /\ obs' = NoObs
  /\ UNCHANGED <<now, ticks, env, req, issued, consumed, fileIO, loginVars, authVars, proxyVars,
                 cli>>

\* storage().clear_tokens() (cli.rs logout)
ClearTokens ==
  /\ file.k # "absent"
  /\ file' = clear_tokens(file)
  /\ obs' = NoObs
  /\ UNCHANGED <<now, ticks, env, req, issued, consumed, fileIO, loginVars, authVars, proxyVars,
                 cli>>

\* storage().load_tokens() (main.rs run_server_only; the read behind get_status)
LoadTokens ==
  LET l == load_tokens(file, env, now) IN
  /\ file' = l.file
  /\ obs' = [op |-> "load", n |-> 1 - obs.n, t |-> now, res |-> l.res, saved |-> NoSave]
  /\ UNCHANGED <<now, ticks, env, req, issued, consumed, fileIO, loginVars, authVars, proxyVars,
                 cli>>

\* cli.rs refresh_token: the console's manual refresh, run to completion:
\* get_refresh_token() guard, refresh_tokens(), and on Ok(true) the status read
CliRefreshOk ==
  LET guard == get_refresh_token(file, env, now)
      g == get_refresh_token(guard.file, env, now)
  IN
  /\ guard.res.k = "some"
  /\ g.res.k = "some"
  /\ g.res.token \notin consumed
  /\ issued < MaxIssued
  /\ \E expires_in \in ResponseExpiresIn :
       LET saved == save_tokens(IssuedAccess(issued + 1), IssuedRefresh(issued + 1),
                                unwrap_or(expires_in, DefaultExpiresIn), now)
           l == load_tokens(saved, env, now)
       IN /\ file' = l.file
          /\ obs' = [op |-> "load", n |-> 1 - obs.n, t |-> now, res |-> l.res,
                     saved |-> Saved(saved.data)]
  /\ issued' = issued + 1
  /\ consumed' = consumed \cup {g.res.token}
  /\ UNCHANGED <<now, ticks, env, req, fileIO, loginVars, authVars, proxyVars, cli>>

\* the same handler when refresh_tokens() returns Ok(false) or Err, or the
\* guard finds no refresh token: nothing is saved, and the only effect is what
\* the loads inside get_refresh_token persist (no effect at all otherwise)
CliRefreshFailed ==
  LET guard == get_refresh_token(file, env, now)
      g == get_refresh_token(guard.file, env, now)
  IN
  /\ file' = IF guard.res.k = "some" THEN g.file ELSE guard.file
  /\ file' # file
  /\ UNCHANGED <<now, ticks, env, req, issued, consumed, obs, fileIO, loginVars, authVars, proxyVars,
                 cli>>

(***************************************************************************)
(* OAuthManager::get_valid_token, called by anthropic_messages             *)
(***************************************************************************)
InFlight(q) == req[q].pc \in {"refresh", "await"}

\* if !self.storage.is_token_expired()
GvtCheck(p) ==
  LET x == is_token_expired(file, env, now)
      l == load_tokens(file, env, now)
      others == IF x.res THEN {q \in Procs \ {p} : InFlight(q)} ELSE {}
  IN
  /\ req[p].pc = "idle"
  /\ \A q \in Procs : q < p => req[q].pc # "idle"
  /\ file' = x.file
  /\ req' = [q \in Procs |->
               IF q = p
               THEN [req[p] EXCEPT !.pc = IF x.res THEN "refresh" ELSE "current",
                                   !.expired = x.res,
                                   !.seen = IF l.res.k = "some"
                                            THEN SomeToken(l.res.data.access_token)
                                            ELSE NoToken,
                                   !.peers = others]
               ELSE IF q \in others
               THEN [req[q] EXCEPT !.peers = @ \cup {p}]
               ELSE req[q]]
  /\ UNCHANGED <<now, ticks, env, issued, consumed, obs, fileIO, loginVars, authVars, proxyVars,
                 cli>>

\* return Ok(self.storage.get_access_token())
GvtCurrent(p) ==
  LET g == get_access_token(file, env, now) IN
  /\ req[p].pc = "current"
  /\ file' = g.file
  /\ req' = [req EXCEPT ![p].pc = "done", ![p].res = g.res]
  /\ UNCHANGED <<now, ticks, env, issued, consumed, obs, fileIO, loginVars, authVars, proxyVars,
                 cli>>

\* refresh_tokens: get_refresh_token, then the POST is sent (or Ok(false))
RefreshStart(p) ==
  LET g == get_refresh_token(file, env, now) IN
  /\ req[p].pc = "refresh"
  /\ file' = g.file
  /\ req' = [req EXCEPT ![p] =
               IF g.res.k = "some"
               THEN [@ EXCEPT !.pc = "await", !.rt = g.res, !.dirty = (g.file # file)]
               ELSE [@ EXCEPT !.pc = "done", !.cause = "no_refresh_token",
                              !.refreshed = "false", !.res = NoToken,
                              !.dirty = (g.file # file)]]
  /\ UNCHANGED <<now, ticks, env, issued, consumed, obs, fileIO, loginVars, authVars, proxyVars,
                 cli>>

\* variant: errors of refresh_tokens() are swallowed
AfterFailedRefresh_SwallowsError(r, cause, refreshed) ==
  [r EXCEPT !.pc = "done", !.cause = cause, !.refreshed = "false", !.res = NoToken]

\* what get_valid_token returns for a refresh_tokens() that did not return Ok(true)
AfterFailedRefresh(r, cause, refreshed) ==
  [r EXCEPT !.pc = "done", !.cause = cause, !.refreshed = refreshed,
            !.res = IF refreshed = "err" THEN TokenErr ELSE NoToken]

\* .send().await? fails: DNS, connection refused, timeout
RefreshTransportError(p) ==
  /\ req[p].pc = "await"
  /\ req' = [req EXCEPT ![p] = AfterFailedRefresh(@, "transport", "err")]
  /\ UNCHANGED <<now, ticks, env, file, issued, consumed, obs, fileIO, loginVars, authVars, proxyVars,
                 cli>>

\* variant: a rejected refresh drops the stored credential
RefreshHttpError_ClearsFile(p) ==
  /\ req[p].pc = "await"
  /\ req' = [req EXCEPT ![p] = AfterFailedRefresh(@, "http_error", "false")]
  /\ file' = AbsentFile
  /\ UNCHANGED <<now, ticks, env, issued, consumed, obs, fileIO, loginVars, authVars, proxyVars,
                 cli>>

\* !response.status().is_success(): the body is read, then Ok(false)
RefreshHttpError(p) ==
  /\ req[p].pc = "await"
  /\ \E body_read \in BOOLEAN :
       req' = [req EXCEPT ![p] =
                 IF body_read
                 THEN AfterFailedRefresh(@, "http_error", "false")
                 ELSE AfterFailedRefresh(@, "transport", "err")]
  /\ UNCHANGED <<now, ticks, env, file, issued, consumed, obs, fileIO, loginVars, authVars, proxyVars,
                 cli>>

\* success status whose body is not a TokenResponse: response.json().await?
RefreshBadBody(p) ==
  /\ req[p].pc = "await"
  /\ req' = [req EXCEPT ![p] = AfterFailedRefresh(@, "bad_body", "err")]
  /\ UNCHANGED <<now, ticks, env, file, issued, consumed, obs, fileIO, loginVars, authVars, proxyVars,
                 cli>>

\* success: the provider rotates the pair, save_tokens stores it, Ok(true)
RefreshOk(p) ==
  /\ req[p].pc = "await"
  /\ req[p].rt.token \notin consumed
  /\ issued < MaxIssued
  /\ \E expires_in \in ResponseExpiresIn :
       file' = save_tokens(IssuedAccess(issued + 1), IssuedRefresh(issued + 1),
                           unwrap_or(expires_in, DefaultExpiresIn), now)
  /\ issued' = issued + 1
  /\ consumed' = consumed \cup {req[p].rt.token}
  /\ obs' = NoObs
  /\ req' = [req EXCEPT ![p].pc = "refreshed", ![p].cause = "ok",
                        ![p].refreshed = "true",
                        ![p].got = SomeToken(IssuedAccess(issued + 1))]
  /\ UNCHANGED <<now, ticks, env, fileIO, loginVars, authVars, proxyVars, cli>>

\* if self.refresh_tokens().await? { Ok(self.storage.get_access_token()) }
GvtAfterRefresh(p) ==
  LET g == get_access_token(file, env, now) IN
  /\ req[p].pc = "refreshed"
  /\ file' = g.file
  /\ req' = [req EXCEPT ![p].pc = "done", ![p].res = g.res]
  /\ UNCHANGED <<now, ticks, env, issued, consumed, obs, fileIO, loginVars, authVars, proxyVars,
                 cli>>

(***************************************************************************)
(* Concurrent inbound requests; request p is the p-th to arrive            *)
(***************************************************************************)
Init ==
  /\ now = T0
  /\ ticks = 0
  /\ env \in ReqEnvChoices
  /\ file \in ReqFileChoices
  /\ req = [p \in Procs |-> IdleReq]
  /\ issued = 0
  /\ consumed = {}
  /\ obs = NoObs
  /\ FileIOIdle
  /\ LoginIdle
  /\ AuthIdle
  /\ ProxyIdle
  /\ CliIdle

Next ==
  \/ Tick
  \/ ClearTokens
  \/ \E p \in Procs : GvtCheck(p)
  \/ \E p \in Procs : GvtCurrent(p)
  \/ \E p \in Procs : RefreshStart(p)
  \/ \E p \in Procs : RefreshTransportError(p)
  \/ \E p \in Procs : RefreshHttpError(p)
  \/ \E p \in Procs : RefreshBadBody(p)
  \/ \E p \in Procs : RefreshOk(p)
  \/ \E p \in Procs : GvtAfterRefresh(p)

Spec == Init /\ [][Next]_vars

(***************************************************************************)
(* The storage driven sequentially (console and start-up), no requests     *)
(***************************************************************************)
InitStore ==
  /\ now = T0
  /\ ticks = 0
  /\ env \in EnvChoices
  /\ file \in FileChoices
  /\ req = [p \in Procs |-> IdleReq]
  /\ issued = 0
  /\ consumed = {}
  /\ obs = NoObs
  /\ FileIOIdle
  /\ LoginIdle
  /\ AuthIdle
  /\ ProxyIdle
  /\ CliIdle

NextStore ==
  \/ Tick
  \/ LoadTokens
  \/ ClearTokens
  \/ CliRefreshOk
  \/ CliRefreshFailed

SpecStore == InitStore /\ [][NextStore]_vars

(***************************************************************************)
(* Logout: the console clears the store, then the store is read and one     *)
(* request is served                                                       *)
(***************************************************************************)
ClearEnvChoices ==
  {Env(NoVar, NoVar, NoVar, NoVar),
   Env(" ", EnvRefresh, NoVar, NoVar),
   Env(EnvAccess, EnvRefresh, NoVar, NoVar),
   Env(EnvAccess, EnvRefresh, "1030", NoVar)}

\* a record is stored when the console offers the logout
ClearFileChoices ==
  {MalformedFile,
   JsonFile(TokenData("a0", "r0", T0 + 61)),
   JsonFile(TokenData("a9", "r9", T0 + 61)),
   JsonFile(TokenData("a9", "r9", T0 + 30))}

InitClear ==
  /\ now = T0
  /\ ticks = 0
  /\ env \in ClearEnvChoices
  /\ file \in ClearFileChoices
  /\ req = [p \in Procs |-> IdleReq]
  /\ issued = 0
  /\ consumed = {}
  /\ obs = NoObs
  /\ FileIOIdle
  /\ LoginIdle
  /\ AuthIdle
  /\ ProxyIdle
  /\ CliIdle

NextClear ==
  \/ Tick
  \/ ClearTokens
  \/ LoadTokens
  \/ GvtCheck(1)
  \/ GvtCurrent(1)
  \/ RefreshStart(1)
  \/ RefreshTransportError(1)
  \/ RefreshHttpError(1)
  \/ RefreshBadBody(1)
  \/ RefreshOk(1)
  \/ GvtAfterRefresh(1)

SpecClear == InitClear /\ [][NextClear]_vars

(***************************************************************************)
(* Login: OAuthManager::get_authorize_url and exchange_code, called one at *)
(* a time by the console (cli.rs login) and at start-up (main.rs).  A       *)
(* string is a sequence of symbols; "#" is the separator character and     *)
(* every other symbol stands for a run of characters without "#".          *)
(***************************************************************************)
Alphabet == {"c", "#", "v1"}
Inputs == UNION {[1..n -> Alphabet] : n \in 0..MaxLen}

\* the n-th verifier generate_pkce draws; "v0" is one drawn by an earlier run
Verifier(n) ==
  IF n = 0 THEN <<"v0">> ELSE IF n = 1 THEN <<"v1">> ELSE IF n = 2 THEN <<"v2">>
  ELSE IF n = 3 THEN <<"v3">> ELSE <<"v4">>

\* str::split('#'), collected
RECURSIVE split(_)
split(str) ==
  IF str = <<>> THEN <<(<<>>)>>
  ELSE LET rest == split(Tail(str)) IN
       IF Head(str) = "#"
       THEN <<(<<>>)>> \o rest
       ELSE <<(<<Head(str)>> \o rest[1])>> \o Tail(rest)

load_pkce(f) ==
  IF f.k = "absent" THEN [k |-> "none"]
  ELSE IF f.k = "malformed" THEN [k |-> "err"]
  ELSE [k |-> "some", code_verifier |-> f.code_verifier, state |-> f.state]

save_pkce(code_verifier, state) == PkceData(code_verifier, state)

clear_pkce(f) == AbsentPkce

get_authorize_url(code_verifier) == save_pkce(code_verifier, code_verifier)

\* get_authorize_url (start_login_flow; main.rs prints the URL at every start)
GetAuthorizeUrl ==
  /\ xchg.pc = "idle"
  /\ sessions < MaxSessions
  /\ sessions' = sessions + 1
  /\ pkce' = get_authorize_url(Verifier(sessions + 1))
  /\ UNCHANGED <<now, ticks, env, file, req, issued, consumed, obs, xchg, used, fileIO, authVars, proxyVars,
                 cli>>

\* exchange_code: fewer than two parts
ExchangeBadFormat ==
  /\ xchg.pc = "idle"
  /\ \E code \in Inputs :
       /\ Len(split(code)) < 2
       /\ xchg' = [IdleXchg EXCEPT !.input = code, !.outcome = "err"]
  /\ UNCHANGED <<now, ticks, env, file, req, issued, consumed, obs, pkce, sessions, used, fileIO, authVars, proxyVars,
                 cli>>

\* exchange_code: load_pkce()? fails on a PKCE file it cannot parse
ExchangePkceError ==
  /\ xchg.pc = "idle"
  /\ load_pkce(pkce).k = "err"
  /\ \E code \in Inputs :
       /\ Len(split(code)) >= 2
       /\ xchg' = [IdleXchg EXCEPT !.input = code, !.outcome = "err"]
  /\ UNCHANGED <<now, ticks, env, file, req, issued, consumed, obs, pkce, sessions, used, fileIO, authVars, proxyVars,
                 cli>>

\* exchange_code up to .send()
ExchangeSend ==
  /\ xchg.pc = "idle"
  /\ load_pkce(pkce).k # "err"
  /\ \E code \in Inputs :
       LET parts == split(code)
           actual_code == parts[1]
           state == parts[2]
           code_verifier == IF load_pkce(pkce).k = "some"
                            THEN load_pkce(pkce).code_verifier
                            ELSE state
       IN /\ Len(parts) >= 2
          /\ xchg' = [pc |-> "await", input |-> code,
                      treq |-> TokenRequest(actual_code, state, code_verifier),
                      session |-> pkce, got |-> "", outcome |-> "none"]
  /\ UNCHANGED <<now, ticks, env, file, req, issued, consumed, obs, pkce, sessions, used, fileIO, authVars, proxyVars,
                 cli>>

\* .send().await? fails
ExchangeTransportError ==
  /\ xchg.pc = "await"
  /\ xchg' = [xchg EXCEPT !.pc = "idle", !.outcome = "err"]
  /\ UNCHANGED <<now, ticks, env, file, req, issued, consumed, obs, pkce, sessions, used, fileIO, authVars, proxyVars,
                 cli>>

\* variant: a rejected exchange discards the session
ExchangeHttpError_ClearsPkce ==
  /\ xchg.pc = "await"
  /\ xchg' = [xchg EXCEPT !.pc = "idle", !.outcome = "err"]
  /\ pkce' = clear_pkce(pkce)
  /\ UNCHANGED <<now, ticks, env, file, req, issued, consumed, obs, sessions, used, fileIO, authVars, proxyVars,
                 cli>>

\* !response.status().is_success()
ExchangeHttpError ==
  /\ xchg.pc = "await"
  /\ xchg' = [xchg EXCEPT !.pc = "idle", !.outcome = "err"]
  /\ UNCHANGED <<now, ticks, env, file, req, issued, consumed, obs, pkce, sessions, used, fileIO, authVars, proxyVars,
                 cli>>

\* response.json().await? fails
ExchangeBadBody ==
  /\ xchg.pc = "await"
  /\ xchg' = [xchg EXCEPT !.pc = "idle", !.outcome = "err"]
  /\ UNCHANGED <<now, ticks, env, file, req, issued, consumed, obs, pkce, sessions, used, fileIO, authVars, proxyVars,
                 cli>>

\* success response: self.storage.save_tokens(..)?
ExchangeSave ==
  /\ xchg.pc = "await"
  /\ issued < MaxIssued
  /\ \E expires_in \in ResponseExpiresIn :
       file' = save_tokens(IssuedAccess(issued + 1), IssuedRefresh(issued + 1),
                           unwrap_or(expires_in, DefaultExpiresIn), now)
  /\ obs' = NoObs
  /\ issued' = issued + 1
  /\ xchg' = [xchg EXCEPT !.pc = "saved", !.got = IssuedAccess(issued + 1)]
  /\ used' = IF xchg.session.k = "json" THEN Append(used, xchg.session.code_verifier) ELSE used
  /\ UNCHANGED <<now, ticks, env, req, consumed, pkce, sessions, fileIO, authVars, proxyVars, cli>>

\* variant: the session outlives the exchange
ExchangeClearPkce_KeepsSession ==
  /\ xchg.pc = "saved"
  /\ xchg' = [xchg EXCEPT !.pc = "idle", !.outcome = "ok"]
  /\ UNCHANGED <<now, ticks, env, file, req, issued, consumed, obs, pkce, sessions, used, fileIO, authVars, proxyVars,
                 cli>>

\* self.clear_pkce()?; Ok(())
ExchangeClearPkce ==
  /\ xchg.pc = "saved"
  /\ pkce' = clear_pkce(pkce)
  /\ xchg' = [xchg EXCEPT !.pc = "idle", !.outcome = "ok"]
  /\ UNCHANGED <<now, ticks, env, file, req, issued, consumed, obs, sessions, used, fileIO, authVars, proxyVars,
                 cli>>

\* the PKCE file an earlier run may have left in the temp directory
PkceChoices == {AbsentPkce, MalformedPkce, PkceData(Verifier(0), Verifier(0))}

LoginFileChoices == {AbsentFile, JsonFile(TokenData("a9", "r9", T0 + 61))}

InitLogin ==
  /\ now = T0
  /\ ticks = 0
  /\ env = Env(NoVar, NoVar, NoVar, NoVar)
  /\ file \in LoginFileChoices
  /\ req = [p \in Procs |-> IdleReq]
  /\ issued = 0
  /\ consumed = {}
  /\ obs = NoObs
  /\ FileIOIdle
  /\ pkce \in PkceChoices
  /\ xchg = IdleXchg
  /\ sessions = 0
  /\ used = <<>>
  /\ AuthIdle
  /\ ProxyIdle
  /\ CliIdle

NextLogin ==
  \/ GetAuthorizeUrl
  \/ ExchangeBadFormat
  \/ ExchangePkceError
  \/ ExchangeSend
  \/ ExchangeTransportError
  \/ ExchangeHttpError
  \/ ExchangeBadBody
  \/ ExchangeSave
  \/ ExchangeClearPkce

SpecLogin == InitLogin /\ [][NextLogin]_vars

(***************************************************************************)
(* The router (proxy.rs create_router) and its api_key_auth middleware.    *)
(* A header value or key is a sequence of words; the word "Bearer " stands *)
(* for that prefix and no other word begins with it.                       *)
(***************************************************************************)
Bearer == "Bearer "
HeaderWords == {Bearer, "k", "x"}
HeaderTexts == UNION {[1..n -> HeaderWords] : n \in 0..MaxHeaderLen}
HeaderValues == {NoHeader, OpaqueHeader} \cup {TextHeader(t) : t \in HeaderTexts}
\* values of the x-api-key header, read only when there is no authorization header
XApiKeyValues ==
  {NoHeader, OpaqueHeader, TextHeader(<<"k">>), TextHeader(<<"x">>), TextHeader(<<Bearer, "k">>)}

\* MAXIMIZE_API_KEY: unset, or any string
KeyChoices == {NoKey, SomeKey(<<>>), SomeKey(<<"k">>), SomeKey(<<Bearer, "k">>)}

ProtectedRoutes == {"/v1/messages"}
OpenRoutes == {"/healthz", "/auth/status", "/debug/token"}

starts_with(str, word) == Len(str) > 0 /\ str[1] = word

RECURSIVE trim_start_matches(_, _)
trim_start_matches(str, word) ==
  IF starts_with(str, word) THEN trim_start_matches(Tail(str), word) ELSE str

\* variant: any readable header passes
api_key_auth_AnyHeader(key, authorization, x_api_key) ==
  IF key.k = "none" THEN "next"
  ELSE LET value == IF authorization # NoHeader THEN authorization ELSE x_api_key IN
       IF value.k # "text" THEN "401 Missing API key" ELSE "next"

\* "next" when the request is passed on, else the error answer
api_key_auth(key, authorization, x_api_key) ==
  IF key.k = "none" THEN "next"
  ELSE LET value == IF authorization # NoHeader THEN authorization ELSE x_api_key IN
       IF value.k # "text" THEN "401 Missing API key"
       ELSE LET header == value.text
                provided_key == IF starts_with(header, Bearer)
                                THEN trim_start_matches(header, Bearer)
                                ELSE header
            IN IF provided_key # key.key THEN "401 Invalid API key" ELSE "next"

\* POST /v1/messages
ProtectedRequest ==
  /\ \E route \in ProtectedRoutes, authorization \in HeaderValues, x_api_key \in XApiKeyValues :
       LET gate == api_key_auth(api_key, authorization, x_api_key) IN
       http' = [route |-> route, authorization |-> authorization, x_api_key |-> x_api_key,
                answer |-> IF gate = "next" THEN "handler" ELSE gate]
  /\ UNCHANGED <<now, ticks, env, file, req, issued, consumed, obs, api_key, fileIO, loginVars, proxyVars,
                 cli>>

\* GET /healthz, /auth/status, /debug/token: no middleware
OpenRequest ==
  /\ \E route \in OpenRoutes, authorization \in HeaderValues, x_api_key \in XApiKeyValues :
       http' = [route |-> route, authorization |-> authorization, x_api_key |-> x_api_key,
                answer |-> "handler"]
  /\ UNCHANGED <<now, ticks, env, file, req, issued, consumed, obs, api_key, fileIO, loginVars, proxyVars,
                 cli>>

InitAuth ==
  /\ now = T0
  /\ ticks = 0
  /\ env = Env(NoVar, NoVar, NoVar, NoVar)
  /\ file = AbsentFile
  /\ req = [p \in Procs |-> IdleReq]
  /\ issued = 0
  /\ consumed = {}
  /\ obs = NoObs
  /\ FileIOIdle
  /\ LoginIdle
  /\ api_key \in KeyChoices
  /\ http = NoRequest
  /\ ProxyIdle
  /\ CliIdle

NextAuth ==
  \/ ProtectedRequest
  \/ OpenRequest

SpecAuth == InitAuth /\ [][NextAuth]_vars

(***************************************************************************)
(* The request transformer (proxy.rs sanitize_anthropic_request).  An f32  *)
(* is NaN or a multiple of 2^-24, the spacing of the f32 values in         *)
(* [0.5, 1); f32::EPSILON, the spacing in [1, 2), is two such units.       *)
(***************************************************************************)
NaN == [nan |-> TRUE, u |-> 0]
F32(u) == [nan |-> FALSE, u |-> u]
One == 16777216
Epsilon == 2
P95 == 15938355

\* Option<T>
None == [k |-> "none"]
Some(x) == [k |-> "some", v |-> x]

ThinkingParameter(type_, budget_tokens) == [type_ |-> type_, budget_tokens |-> budget_tokens]

AnthropicMessageRequest(max_tokens, temperature, top_p, top_k, system, stream, thinking, tools) ==
  [model |-> "model", messages |-> <<"user">>, max_tokens |-> max_tokens,
   temperature |-> temperature, top_p |-> top_p, top_k |-> top_k, system |-> system,
   stream |-> stream, thinking |-> thinking, tools |-> tools]

is_nan(x) == x.nan

\* (lo..=hi).contains(&x)
contains(lo, hi, x) == ~x.nan /\ lo <= x.u /\ x.u <= hi

abs(n) == IF n < 0 THEN 0 - n ELSE n

\* f32::max and f32::min of a value that is not NaN
max(x, u) == IF x.u < u THEN F32(u) ELSE x
min(x, u) == IF x.u > u THEN F32(u) ELSE x

\* variant: the upper end of the range is excluded
valid_top_p_Exclusive(top_p) ==
  IF top_p.k = "some" /\ (is_nan(top_p.v) \/ ~(contains(0, One, top_p.v) /\ top_p.v.u # One))
  THEN None ELSE top_p

valid_top_p(top_p) ==
  IF top_p.k = "some" /\ (is_nan(top_p.v) \/ ~contains(0, One, top_p.v)) THEN None ELSE top_p

\* variant: a temperature outside [0, 1] is removed as well
valid_temperature_RangeChecked(temperature) ==
  IF temperature.k = "some" /\ (is_nan(temperature.v) \/ ~contains(0, One, temperature.v))
  THEN None ELSE temperature

valid_temperature(temperature) ==
  IF temperature.k = "some" /\ is_nan(temperature.v) THEN None ELSE temperature

\* variant: a top_k that is not positive is raised by one
valid_top_k_Increments(top_k) ==
  IF top_k.k = "some" /\ top_k.v <= 0 THEN Some(top_k.v + 1) ELSE top_k

valid_top_k(top_k) ==
  IF top_k.k = "some" /\ top_k.v <= 0 THEN None ELSE top_k

valid_tools(tools) ==
  IF tools.k = "some" /\ Len(tools.v) = 0 THEN None ELSE tools

thinking_enabled(r) == r.thinking.k = "some" /\ r.thinking.v.type_ = "enabled"

\* variant: the temperature is left as it is
thinking_temperature_Unchanged(temperature) == temperature

thinking_temperature(temperature) ==
  IF temperature.k = "some" /\ abs(temperature.v.u - One) > Epsilon
  THEN Some(F32(One)) ELSE temperature

\* variant: only the upper end of the range is enforced
thinking_top_p_NoFloor(top_p) ==
  IF top_p.k = "some" /\ ~contains(P95, One, top_p.v)
  THEN Some(min(top_p.v, One)) ELSE top_p

thinking_top_p(top_p) ==
  IF top_p.k = "some" /\ ~contains(P95, One, top_p.v)
  THEN Some(min(max(top_p.v, P95), One)) ELSE top_p

sanitize_anthropic_request(r) ==
  LET top_p == valid_top_p(r.top_p)
      temperature == valid_temperature(r.temperature)
      top_k == valid_top_k(r.top_k)
      tools == valid_tools(r.tools)
  IN IF thinking_enabled(r)
     THEN [r EXCEPT !.top_p = thinking_top_p(top_p),
                    !.temperature = thinking_temperature(temperature),
                    !.top_k = None,
                    !.tools = tools]
     ELSE [r EXCEPT !.top_p = top_p, !.temperature = temperature,
                    !.top_k = top_k, !.tools = tools]

\* request bodies a caller can send
TemperatureChoices ==
  {None} \cup {Some(x) : x \in {NaN, F32(0), F32(One - 1), F32(One), F32(One + Epsilon),
                               F32(One + 2 * Epsilon), F32(2 * One)}}
TopPChoices ==
  {None} \cup {Some(x) : x \in {NaN, F32(0 - 1), F32(0), F32(One \div 2), F32(P95 - 1),
                               F32(P95), F32(One), F32(One + Epsilon)}}
TopKChoices == {None} \cup {Some(n) : n \in (0 - 1)..MaxTopK}
ToolsChoices == {None} \cup {Some([i \in 1..n |-> "tool"]) : n \in 0..MaxTools}
SystemChoices == {None, Some("text")}
ThinkingChoices ==
  {None, Some(ThinkingParameter("enabled", 16000)), Some(ThinkingParameter("disabled", 16000))}

Requests ==
  {AnthropicMessageRequest(4096, temperature, top_p, top_k, system, stream, thinking, tools) :
     temperature \in TemperatureChoices, top_p \in TopPChoices, top_k \in TopKChoices,
     system \in SystemChoices, stream \in BOOLEAN, thinking \in ThinkingChoices,
     tools \in ToolsChoices}

\* sanitize_anthropic_request(request)
Sanitize ==
  /\ xform.pc = "received"
  /\ xform' = [xform EXCEPT !.pc = "sanitized", !.out = sanitize_anthropic_request(xform.request)]
  /\ UNCHANGED <<now, ticks, env, file, req, issued, consumed, obs, msg, twin,
                 fileIO, loginVars, authVars, cli>>

\* sanitize_anthropic_request applied to its own result
SanitizeAgain ==
  /\ xform.pc = "sanitized"
  /\ xform' = [xform EXCEPT !.pc = "resanitized", !.again = sanitize_anthropic_request(xform.out)]
  /\ UNCHANGED <<now, ticks, env, file, req, issued, consumed, obs, msg, twin,
                 fileIO, loginVars, authVars, cli>>

InitSanitize ==
  /\ now = T0
  /\ ticks = 0
  /\ env = Env(NoVar, NoVar, NoVar, NoVar)
  /\ file = AbsentFile
  /\ req = [p \in Procs |-> IdleReq]
  /\ issued = 0
  /\ consumed = {}
  /\ obs = NoObs
  /\ FileIOIdle
  /\ LoginIdle
  /\ AuthIdle
  /\ \E request \in Requests :
       xform = [pc |-> "received", request |-> request, out |-> request, again |-> request]
  /\ msg = NoCall
  /\ twin = NoTwin
  /\ CliIdle

NextSanitize ==
  \/ Sanitize
  \/ SanitizeAgain

SpecSanitize == InitSanitize /\ [][NextSanitize]_vars

(***************************************************************************)
(* The routes outside the api_key_auth layer (proxy.rs health_check,       *)
(* auth_status, token_debug).  A token is named by a string; Chars gives   *)
(* its text, in which the name is the first character.  Next to the token  *)
(* file the state carries a second file with the same expiry and other     *)
(* token strings, and what each route answers from it.                     *)
(***************************************************************************)
ShortTokens == {"s", "t"}
Chars(s) == IF s \in ShortTokens THEN <<s>> ELSE [i \in 1..TokenLength |-> IF i = 1 THEN s ELSE "x"]

\* another token string of the same length
OtherToken(s) ==
  IF s = "s" THEN "t" ELSE IF s = "a1" THEN "a2" ELSE IF s = "r1" THEN "r2" ELSE s

TwinFile(f) ==
  IF f.k = "json"
  THEN JsonFile(TokenData(OtherToken(f.data.access_token), OtherToken(f.data.refresh_token),
                          f.data.expires_at))
  ELSE f

\* Json(json!({"status": "ok", "timestamp": now}))
health_check(t) == [status |-> "ok", timestamp |-> t]

\* the body of token_debug, given what get_access_token returned
token_info(token, e) ==
  IF token.k = "some"
  THEN LET t == Chars(token.token) IN
       IF Len(t) > 16
       THEN [has_token |-> TRUE,
             token_preview |-> SubSeq(t, 1, 12) \o <<"...">> \o SubSeq(t, Len(t) - 11, Len(t)),
             token_length |-> Len(t),
             starts_with |-> SubSeq(t, 1, 10),
             source |-> IF e.access # NoVar THEN "environment" ELSE "file"]
       ELSE [has_token |-> TRUE, token_preview |-> <<"[too short]">>, token_length |-> Len(t),
             warning |-> "Token is unusually short"]
  ELSE [has_token |-> FALSE, message |-> "No token loaded"]

\* GET /healthz
HealthCheck ==
  /\ http' = [route |-> "/healthz", answer |-> health_check(now)]
  /\ twin' = [twin EXCEPT !.answer = health_check(now)]
  /\ UNCHANGED <<now, ticks, env, file, req, issued, consumed, obs, api_key, xform, msg,
                 fileIO, loginVars, cli>>

\* GET /auth/status
AuthStatus ==
  LET s == get_status(file, env, now)
      s2 == get_status(twin.file, env, now)
  IN /\ http' = [route |-> "/auth/status", answer |-> s.res]
     /\ file' = s.file
     /\ twin' = [file |-> s2.file, answer |-> s2.res]
     /\ UNCHANGED <<now, ticks, env, req, issued, consumed, obs, api_key, xform, msg,
                    fileIO, loginVars, cli>>

\* GET /debug/token
TokenDebug ==
  LET a == get_access_token(file, env, now)
      a2 == get_access_token(twin.file, env, now)
  IN /\ http' = [route |-> "/debug/token", answer |-> token_info(a.res, env)]
     /\ file' = a.file
     /\ twin' = [file |-> a2.file, answer |-> token_info(a2.res, env)]
     /\ UNCHANGED <<now, ticks, env, req, issued, consumed, obs, api_key, xform, msg,
                    fileIO, loginVars, cli>>

OpenEnvChoices ==
  {Env(NoVar, NoVar, NoVar, NoVar), Env(EnvAccess, EnvRefresh, NoVar, NoVar)}

OpenFileChoices ==
  {AbsentFile, MalformedFile,
   JsonFile(TokenData("a1", "r1", T0 + 3600)),
   JsonFile(TokenData("s", "r1", T0 + 3600)),
   JsonFile(TokenData("a1", "r1", T0 + ExpiryBuffer)),
   JsonFile(TokenData("a1", "r1", T0 - 1))}

InitOpen ==
  /\ now = T0
  /\ ticks = 0
  /\ env \in OpenEnvChoices
  /\ file \in OpenFileChoices
  /\ req = [p \in Procs |-> IdleReq]
  /\ issued = 0
  /\ consumed = {}
  /\ obs = NoObs
  /\ FileIOIdle
  /\ LoginIdle
  /\ AuthIdle
  /\ xform = NoCall
  /\ msg = NoCall
  /\ twin = [file |-> TwinFile(file), answer |-> NoRequest]
  /\ CliIdle

NextOpen ==
  \/ Tick
  \/ HealthCheck
  \/ AuthStatus
  \/ TokenDebug

SpecOpen == InitOpen /\ [][NextOpen]_vars

(***************************************************************************)
(* One inbound POST /v1/messages (proxy.rs anthropic_messages), from the   *)
(* api_key_auth layer to the answer.  Its get_valid_token call is request  *)
(* 1 of the actions above.  A body is a sequence of bytes; an i32 is kept  *)
(* inside its 32 bits.                                                     *)
(***************************************************************************)
I32Max == 2147483647
I32Min == 0 - I32Max - 1

\* a + b does not fit an i32
overflows(a, b) == IF b > 0 THEN a > I32Max - b ELSE a < I32Min - b

\* a + b as a build without overflow checks computes it
wrapping_add(a, b) ==
  IF ~overflows(a, b) THEN a + b
  ELSE IF b > 0 THEN ((a - I32Max - 1) + b) + I32Min
  ELSE ((a - I32Min) + b) + I32Max + 1

\* a build with overflow checks panics on overflow, one without wraps
Builds == {"debug", "release"}

min_response_tokens == 1024

\* "Ensure max_tokens is sufficient if thinking is enabled", the sum wrapping
ensure_max_tokens(r) ==
  IF thinking_enabled(r)
  THEN LET required_total == wrapping_add(r.thinking.v.budget_tokens, min_response_tokens) IN
       IF r.max_tokens < required_total THEN [r EXCEPT !.max_tokens = required_total] ELSE r
  ELSE r

\* serde_json::Value of the system field, and the content blocks of a list
StringValue(s) == [t |-> "string", s |-> s]
ArrayValue(blocks) == [t |-> "array", blocks |-> blocks]
ObjectValue == [t |-> "object"]
NumberValue(n) == [t |-> "number", n |-> n]
TextBlock(text, cache_control) ==
  [type |-> "text", text |-> text, cache_control |-> cache_control]
claude_code_spoof_element ==
  TextBlock("You are Claude Code, Anthropic's official CLI for Claude.", Some("ephemeral"))

inject_claude_code_system_message(r) ==
  IF r.system.k = "none" THEN [r EXCEPT !.system = Some(ArrayValue(<<claude_code_spoof_element>>))]
  ELSE IF r.system.v.t = "array"
  THEN [r EXCEPT !.system = Some(ArrayValue(<<claude_code_spoof_element>> \o r.system.v.blocks))]
  ELSE IF r.system.v.t = "string"
  THEN [r EXCEPT !.system =
          Some(ArrayValue(<<claude_code_spoof_element, TextBlock(r.system.v.s, Some("ephemeral"))>>))]
  ELSE r

\* system fields a caller can send: absent, a string, a list of up to
\* MaxBlocks content blocks (the caller may send the identification block
\* itself), or a JSON value of another kind
CallerBlocks ==
  {TextBlock("A", None), TextBlock("B", Some("ephemeral")), claude_code_spoof_element}
BlockLists == UNION {[1..n -> CallerBlocks] : n \in 0..MaxBlocks}
SystemValues ==
  {None, Some(StringValue("X")), Some(ObjectValue), Some(NumberValue(7))}
    \cup {Some(ArrayValue(blocks)) : blocks \in BlockLists}

InjectRequests ==
  {AnthropicMessageRequest(4096, None, None, None, system, stream, thinking, None) :
     system \in SystemValues, stream \in BOOLEAN, thinking \in ThinkingChoices}

\* inject_claude_code_system_message(request)
Inject ==
  /\ xform.pc = "received"
  /\ xform' = [xform EXCEPT !.pc = "injected",
                            !.out = inject_claude_code_system_message(xform.request)]
  /\ UNCHANGED <<now, ticks, env, file, req, issued, consumed, obs, msg, twin,
                 fileIO, loginVars, authVars, cli>>

InitInject ==
  /\ now = T0
  /\ ticks = 0
  /\ env = Env(NoVar, NoVar, NoVar, NoVar)
  /\ file = AbsentFile
  /\ req = [p \in Procs |-> IdleReq]
  /\ issued = 0
  /\ consumed = {}
  /\ obs = NoObs
  /\ FileIOIdle
  /\ LoginIdle
  /\ AuthIdle
  /\ \E request \in InjectRequests :
       xform = [pc |-> "received", request |-> request, out |-> request, again |-> request]
  /\ msg = NoCall
  /\ twin = NoTwin
  /\ CliIdle

NextInject == Inject

SpecInject == InitInject /\ [][NextInject]_vars

(***************************************************************************)
(* The anthropic-beta header of make_anthropic_request (proxy.rs).  A      *)
(* header value is a sequence of symbols: the comma, the space, two        *)
(* characters a caller's own flag is written with, and one of the required *)
(* flags written as a single symbol.  The symbols begin with different     *)
(* bytes, so comparing symbol by symbol in the order of Rank is the byte   *)
(* order in which Vec<&str>::sort compares the texts.                      *)
(***************************************************************************)
required_betas ==
  << <<"claude-code-20250219">>, <<"oauth-2025-04-20">>,
     <<"fine-grained-tool-streaming-2025-05-14">> >>

BetaSymbols == {",", " ", "b", "z", "oauth-2025-04-20"}

Rank(c) ==
  IF c = " " THEN 0 ELSE IF c = "," THEN 1 ELSE IF c = "b" THEN 2
  ELSE IF c = "claude-code-20250219" THEN 3
  ELSE IF c = "fine-grained-tool-streaming-2025-05-14" THEN 4
  ELSE IF c = "oauth-2025-04-20" THEN 5 ELSE 6

\* str::split(','), collected
RECURSIVE split_comma(_)
split_comma(str) ==
  IF str = <<>> THEN <<(<<>>)>>
  ELSE LET rest == split_comma(Tail(str)) IN
       IF Head(str) = ","
       THEN <<(<<>>)>> \o rest
       ELSE <<(<<Head(str)>> \o rest[1])>> \o Tail(rest)

\* str::trim
RECURSIVE trim_start(_)
trim_start(str) ==
  IF str # <<>> /\ Head(str) = " " THEN trim_start(Tail(str)) ELSE str

RECURSIVE trim_end(_)
trim_end(str) ==
  IF str # <<>> /\ str[Len(str)] = " " THEN trim_end(SubSeq(str, 1, Len(str) - 1)) ELSE str

trim(str) == trim_end(trim_start(str))

\* Ord for str: a < b
RECURSIVE less(_, _)
less(a, b) ==
  IF b = <<>> THEN FALSE
  ELSE IF a = <<>> THEN TRUE
  ELSE IF Head(a) = Head(b) THEN less(Tail(a), Tail(b))
  ELSE Rank(Head(a)) < Rank(Head(b))

\* Vec::sort (stable)
RECURSIVE insert_sorted(_, _)
insert_sorted(x, list) ==
  IF list = <<>> THEN <<x>>
  ELSE IF less(x, Head(list)) THEN <<x>> \o list
  ELSE <<Head(list)>> \o insert_sorted(x, Tail(list))

RECURSIVE sort(_)
sort(list) ==
  IF list = <<>> THEN <<>> ELSE insert_sorted(list[Len(list)], sort(SubSeq(list, 1, Len(list) - 1)))

RECURSIVE dedup(_)

\* variant: repeated flags are kept
dedup_KeepsAll(list) == list

\* Vec::dedup: of consecutive equal elements the first is kept
dedup(list) ==
  IF Len(list) < 2 THEN list
  ELSE IF list[1] = list[2] THEN dedup(Tail(list))
  ELSE <<list[1]>> \o dedup(Tail(list))

\* [&str]::join(",")
RECURSIVE join(_)
join(list) ==
  IF list = <<>> THEN <<>>
  ELSE IF Len(list) = 1 THEN list[1]
  ELSE list[1] \o <<",">> \o join(Tail(list))

client_beta_list(client_betas) ==
  LET parts == split_comma(client_betas) IN [i \in 1..Len(parts) |-> trim(parts[i])]

all_betas(client_beta_headers) ==
  IF client_beta_headers.k = "some"
  THEN dedup(sort(required_betas \o client_beta_list(client_beta_headers.v)))
  ELSE required_betas

\* anthropic-beta values a caller can send, or none
BetaHeaders ==
  {None} \cup {Some(h) : h \in UNION {[1..n -> BetaSymbols] : n \in 0..MaxBetaLen}}

\* make_anthropic_request up to beta_header_value
ComposeBetas ==
  /\ xform.pc = "composing"
  /\ xform' = [xform EXCEPT !.pc = "composed",
                            !.all_betas = all_betas(xform.client_beta_headers),
                            !.beta_header_value = join(all_betas(xform.client_beta_headers))]
  /\ UNCHANGED <<now, ticks, env, file, req, issued, consumed, obs, msg, twin,
                 fileIO, loginVars, authVars, cli>>

InitBeta ==
  /\ now = T0
  /\ ticks = 0
  /\ env = Env(NoVar, NoVar, NoVar, NoVar)
  /\ file = AbsentFile
  /\ req = [p \in Procs |-> IdleReq]
  /\ issued = 0
  /\ consumed = {}
  /\ obs = NoObs
  /\ FileIOIdle
  /\ LoginIdle
  /\ AuthIdle
  /\ \E client_beta_headers \in BetaHeaders :
       xform = [pc |-> "composing", client_beta_headers |-> client_beta_headers,
                all_betas |-> <<>>, beta_header_value |-> <<>>]
  /\ msg = NoCall
  /\ twin = NoTwin
  /\ CliIdle

NextBeta == ComposeBetas

SpecBeta == InitBeta /\ [][NextBeta]_vars

\* Settings.request_timeout, and the timeout reqwest::Client::new() sets
request_timeout == 120
ClientTimeout == None

\* serde_json::from_str on a body: whitespace between tokens is skipped
from_str(body) ==
  LET tokens == SelectSeq(body, LAMBDA b : b # " ") IN
  IF tokens = <<"{", "}">> THEN Some([t |-> "object"]) ELSE None

\* the bytes Json(value) answers with
to_bytes(value) ==
  IF value.t = "object" THEN <<"{", "}">>
  ELSE <<"{", "error", ":">> \o value.message \o <<"}">>

ErrorValue(message) == [t |-> "error", message |-> message]

UpstreamStatuses == {200, 201, 400, 401, 429, 529}
ContentTypes == {"application/json", "text/event-stream"}
Bodies == {<<"{", "}">>, <<"{", " ", "}">>, <<"data">>}

is_success(status) == 200 <= status /\ status <= 299

HttpResponse(status, content_type, body) ==
  [status |-> status, content_type |-> content_type, body |-> body]

\* what anthropic_messages answers once the upstream response has arrived
relay(is_streaming, status, content_type, body, readable) ==
  IF ~is_success(status)
  THEN LET error_text == IF readable THEN body ELSE <<>>
           parsed == from_str(error_text)
           error_json == IF parsed.k = "some" THEN parsed.v ELSE ErrorValue(error_text)
       IN HttpResponse(status, "application/json", to_bytes(error_json))
  ELSE IF is_streaming
  THEN HttpResponse(200, "text/event-stream", body)
  ELSE IF ~readable
  THEN HttpResponse(500, "application/json", to_bytes(ErrorValue(<<"Failed to read response">>)))
  ELSE LET parsed == from_str(body) IN
       IF parsed.k = "none"
       THEN HttpResponse(500, "application/json",
                         to_bytes(ErrorValue(<<"Failed to parse response">>)))
       ELSE HttpResponse(200, "application/json", to_bytes(parsed.v))

MsgHeaders == {NoHeader, TextHeader(<<Bearer, "k">>), TextHeader(<<"x">>)}
MsgKeyChoices == {NoKey, SomeKey(<<"k">>)}

MsgThinkingChoices ==
  {None, Some(ThinkingParameter("disabled", 3072)), Some(ThinkingParameter("enabled", 3072)),
   Some(ThinkingParameter("enabled", I32Max - 1023))}

MsgRequests ==
  {AnthropicMessageRequest(max_tokens, Some(F32(0)), None, Some(1), None, stream, thinking,
                           Some(<<>>)) :
     max_tokens \in {1024, 4096, 8192}, stream \in BOOLEAN, thinking \in MsgThinkingChoices}

Answer(m, cause, response) == [m EXCEPT !.pc = "done", !.cause = cause, !.response = response]

\* the request passes the api_key_auth layer, or is answered by it
MsgArrive ==
  /\ msg = NoCall
  /\ \E request \in MsgRequests, authorization \in MsgHeaders :
       LET gate == api_key_auth(api_key, authorization, NoHeader)
           m == [pc |-> "accepted", received |-> request, request |-> request,
                 access_token |-> NoToken, sanitized |-> 0, injected |-> 0,
                 sent |-> None, upstream |-> None, cause |-> "", response |-> NoRequest]
       IN msg' = IF gate = "next" THEN m
                 ELSE Answer(m, "gate", HttpResponse(401, "application/json",
                                                     to_bytes(ErrorValue(<<gate>>))))
  /\ UNCHANGED <<now, ticks, env, file, req, issued, consumed, obs, api_key, http, xform, twin,
                 fileIO, loginVars, cli>>

\* state.oauth_manager.get_valid_token()
MsgGetValidToken ==
  /\ msg.pc = "accepted"
  /\ GvtCheck(1)

\* variant: every failure of get_valid_token is answered with 401
MsgTokenResult_AlwaysUnauthorized ==
  /\ msg.pc = "accepted"
  /\ req[1].pc = "done"
  /\ msg' = IF req[1].res.k = "some"
            THEN [msg EXCEPT !.pc = "token", !.access_token = req[1].res]
            ELSE Answer(msg, "no_token",
                        HttpResponse(401, "application/json", to_bytes(ErrorValue(<<"OAuth expired">>))))
  /\ UNCHANGED <<now, ticks, env, file, req, issued, consumed, obs, api_key, http, xform, twin,
                 fileIO, loginVars, cli>>

\* .map_err(500 "Token refresh error")?.ok_or_else(401 "OAuth expired")?
MsgTokenResult ==
  /\ msg.pc = "accepted"
  /\ req[1].pc = "done"
  /\ msg' = IF req[1].res.k = "err"
            THEN Answer(msg, "token_error",
                        HttpResponse(500, "application/json",
                                     to_bytes(ErrorValue(<<"Token refresh error">>))))
            ELSE IF req[1].res.k = "none"
            THEN Answer(msg, "no_token",
                        HttpResponse(401, "application/json", to_bytes(ErrorValue(<<"OAuth expired">>))))
            ELSE [msg EXCEPT !.pc = "token", !.access_token = req[1].res]
  /\ UNCHANGED <<now, ticks, env, file, req, issued, consumed, obs, api_key, http, xform, twin,
                 fileIO, loginVars, cli>>

\* the max_tokens adjustment; on overflow the build decides
MsgEnsureMaxTokens ==
  /\ msg.pc = "token"
  /\ \E build \in Builds :
       msg' = IF /\ thinking_enabled(msg.request)
                 /\ overflows(msg.request.thinking.v.budget_tokens, min_response_tokens)
                 /\ build = "debug"
              THEN Answer(msg, "panic", NoRequest)
              ELSE [msg EXCEPT !.pc = "adjusted", !.request = ensure_max_tokens(msg.request)]
  /\ UNCHANGED <<now, ticks, env, file, req, issued, consumed, obs, api_key, http, xform, twin,
                 fileIO, loginVars, cli>>

\* request = sanitize_anthropic_request(request)
MsgSanitize ==
  /\ msg.pc = "adjusted"
  /\ msg' = [msg EXCEPT !.pc = "sanitized", !.request = sanitize_anthropic_request(msg.request),
                        !.sanitized = @ + 1]
  /\ UNCHANGED <<now, ticks, env, file, req, issued, consumed, obs, api_key, http, xform, twin,
                 fileIO, loginVars, cli>>

\* request = inject_claude_code_system_message(request)
MsgInject ==
  /\ msg.pc = "sanitized"
  /\ msg' = [msg EXCEPT !.pc = "injected",
                        !.request = inject_claude_code_system_message(msg.request),
                        !.injected = @ + 1]
  /\ UNCHANGED <<now, ticks, env, file, req, issued, consumed, obs, api_key, http, xform, twin,
                 fileIO, loginVars, cli>>

\* variant: the request is sent as soon as there is a token
MsgDispatch_Unnormalized ==
  /\ msg.pc \in {"token", "injected"}
  /\ msg' = [msg EXCEPT !.pc = "dispatched",
                        !.sent = Some([request |-> msg.request,
                                       access_token |-> msg.access_token.token,
                                       timeout |-> ClientTimeout])]
  /\ UNCHANGED <<now, ticks, env, file, req, issued, consumed, obs, api_key, http, xform, twin,
                 fileIO, loginVars, cli>>

\* make_anthropic_request: the POST is sent
MsgDispatch ==
  /\ msg.pc = "injected"
  /\ msg' = [msg EXCEPT !.pc = "dispatched",
                        !.sent = Some([request |-> msg.request,
                                       access_token |-> msg.access_token.token,
                                       timeout |-> ClientTimeout])]
  /\ UNCHANGED <<now, ticks, env, file, req, issued, consumed, obs, api_key, http, xform, twin,
                 fileIO, loginVars, cli>>

\* variant: a dispatch that failed is sent again
UpstreamTransportError_Retries ==
  /\ msg.pc = "dispatched"
  /\ msg' = [msg EXCEPT !.pc = "injected"]
  /\ UNCHANGED <<now, ticks, env, file, req, issued, consumed, obs, api_key, http, xform, twin,
                 fileIO, loginVars, cli>>

\* .send().await fails: DNS, connection refused, connection reset
UpstreamTransportError ==
  /\ msg.pc = "dispatched"
  /\ msg' = [Answer(msg, "transport",
                    HttpResponse(500, "application/json", to_bytes(ErrorValue(<<"error sending request">>))))
               EXCEPT !.upstream = Some([k |-> "error"])]
  /\ UNCHANGED <<now, ticks, env, file, req, issued, consumed, obs, api_key, http, xform, twin,
                 fileIO, loginVars, cli>>

\* the upstream response arrives and is relayed
UpstreamResponse ==
  /\ msg.pc = "dispatched"
  /\ \E status \in UpstreamStatuses, content_type \in ContentTypes, body \in Bodies,
        readable \in BOOLEAN :
       msg' = [Answer(msg, "upstream",
                      relay(msg.request.stream, status, content_type, body, readable))
                 EXCEPT !.upstream = Some([k |-> "response", status |-> status,
                                           content_type |-> content_type, body |-> body,
                                           readable |-> readable])]
  /\ UNCHANGED <<now, ticks, env, file, req, issued, consumed, obs, api_key, http, xform, twin,
                 fileIO, loginVars, cli>>

InitMsg ==
  /\ now = T0
  /\ ticks = 0
  /\ env \in ReqEnvChoices
  /\ file \in ReqFileChoices
  /\ req = [p \in Procs |-> IdleReq]
  /\ issued = 0
  /\ consumed = {}
  /\ obs = NoObs
  /\ FileIOIdle
  /\ LoginIdle
  /\ api_key \in MsgKeyChoices
  /\ http = NoRequest
  /\ xform = NoCall
  /\ msg = NoCall
  /\ twin = NoTwin
  /\ CliIdle

\* the clock, while the request is being handled
MsgTick ==
  /\ msg.pc # "done"
  /\ Tick

\* the steps the handler takes by itself
MsgSteps ==
  \/ MsgGetValidToken
  \/ GvtCurrent(1)
  \/ RefreshStart(1)
  \/ GvtAfterRefresh(1)
  \/ MsgTokenResult
  \/ MsgEnsureMaxTokens
  \/ MsgSanitize
  \/ MsgInject
  \/ MsgDispatch

NextMsg ==
  \/ MsgTick
  \/ MsgArrive
  \/ MsgSteps
  \/ RefreshTransportError(1)
  \/ RefreshHttpError(1)
  \/ RefreshBadBody(1)
  \/ RefreshOk(1)
  \/ UpstreamTransportError
  \/ UpstreamResponse

SpecMsg == InitMsg /\ [][NextMsg]_vars

\* the runtime keeps running a handler that can take a step; nothing makes
\* the provider answer
SpecMsgLive == SpecMsg /\ WF_vars(MsgSteps)

(***************************************************************************)
(* The interactive console and the proxy server it starts (cli.rs          *)
(* start_proxy_server, check_and_refresh_auth, stop_proxy_server, run).    *)
(* cli holds the console's position, Cli.server_handle, run's local        *)
(* server_running, the retry count and last auth_status of the start in    *)
(* progress, and the state of every server thread spawned so far.  A       *)
(* thread binds the configured address when it runs; the address can be    *)
(* bound by one listener at a time.                                        *)
(***************************************************************************)
MAX_RETRIES == 3
ServerThreads == 1..MaxServers

ConsoleAtMenu ==
  [pc |-> "menu", server_handle |-> None, server_running |-> FALSE, retry_count |-> 0,
   auth_status |-> "", server |-> [i \in ServerThreads |-> "unspawned"]]

Listening == {i \in ServerThreads : cli.server[i] = "listening"}

\* start_proxy_server is entered from the menu with retry_count 0 (run offers
\* it while server_running is false), or again by the retry prompt's choice 1
StartEntered == (cli.pc = "menu" /\ ~cli.server_running) \/ cli.pc = "retry_prompt"
RetryCount == IF cli.pc = "retry_prompt" THEN cli.retry_count + 1 ELSE 0

\* self.server_handle = None: the JoinHandle is dropped, which detaches the
\* thread and leaves it running
DropHandle(c) == [c EXCEPT !.server_handle = None]

\* thread::spawn of the server thread, self.server_handle = Some(handle)
Spawn(c, auth_status) ==
  LET i == CHOOSE j \in ServerThreads : c.server[j] = "unspawned" IN
  [c EXCEPT !.pc = "sleeping", !.auth_status = auth_status, !.retry_count = 0,
            !.server_handle = Some(i), !.server[i] = "spawned"]

Refused(c, auth_status) == [c EXCEPT !.pc = "menu", !.auth_status = auth_status, !.retry_count = 0]

\* start_proxy_server when the server is reported running already, or
\* check_and_refresh_auth answers NO_AUTH or NO_REFRESH
StartRefused ==
  LET st == get_status(file, env, now)
      rt == get_refresh_token(st.file, env, now)
  IN
  /\ StartEntered
  /\ IF cli.server_handle # None
     THEN cli' = Refused(cli, "ALREADY_RUNNING") /\ file' = file
     ELSE IF ~st.res.has_tokens
     THEN cli' = Refused(cli, "NO_AUTH") /\ file' = st.file
     ELSE /\ st.res.is_expired
          /\ rt.res.k = "none"
          /\ cli' = Refused(cli, "NO_REFRESH")
          /\ file' = rt.file
  /\ UNCHANGED <<now, ticks, env, req, issued, consumed, obs, fileIO, loginVars, authVars,
                 proxyVars>>

\* start_proxy_server with a token that get_status reports not expired
StartValid ==
  LET st == get_status(file, env, now) IN
  /\ StartEntered
  /\ cli.server_handle = None
  /\ st.res.has_tokens
  /\ ~st.res.is_expired
  /\ \E j \in ServerThreads : cli.server[j] = "unspawned"
  /\ cli' = Spawn(cli, "VALID")
  /\ file' = st.file
  /\ UNCHANGED <<now, ticks, env, req, issued, consumed, obs, fileIO, loginVars, authVars,
                 proxyVars>>

\* the token is expired and a refresh token is there: refresh_tokens() is sent
RefreshNeeded ==
  LET st == get_status(file, env, now)
      rt == get_refresh_token(st.file, env, now)
  IN
  /\ StartEntered
  /\ cli.server_handle = None
  /\ st.res.has_tokens
  /\ st.res.is_expired
  /\ rt.res.k = "some"

\* what refresh_tokens() sends: its own get_refresh_token()
RefreshSent ==
  get_refresh_token(get_refresh_token(get_status(file, env, now).file, env, now).file, env, now)

\* start_proxy_server when the refresh returns Ok(true): REFRESHED
StartRefreshed ==
  /\ RefreshNeeded
  /\ RefreshSent.res.k = "some"
  /\ RefreshSent.res.token \notin consumed
  /\ issued < MaxIssued
  /\ \E j \in ServerThreads : cli.server[j] = "unspawned"
  /\ \E expires_in \in ResponseExpiresIn :
       LET saved == save_tokens(IssuedAccess(issued + 1), IssuedRefresh(issued + 1),
                                unwrap_or(expires_in, DefaultExpiresIn), now)
       IN file' = get_status(saved, env, now).file
  /\ issued' = issued + 1
  /\ consumed' = consumed \cup {RefreshSent.res.token}
  /\ cli' = Spawn(cli, "REFRESHED")
  /\ UNCHANGED <<now, ticks, env, req, obs, fileIO, loginVars, authVars, proxyVars>>

\* start_proxy_server when the refresh returns Ok(false): REFRESH_FAILED
StartRefreshFailed ==
  /\ RefreshNeeded
  /\ cli' = Refused(cli, "REFRESH_FAILED")
  /\ file' = RefreshSent.file
  /\ UNCHANGED <<now, ticks, env, req, issued, consumed, obs, fileIO, loginVars, authVars,
                 proxyVars>>

\* start_proxy_server when the refresh returns Err: NETWORK_ERROR, and the
\* retry prompt while retry_count < MAX_RETRIES
StartNetworkError ==
  /\ RefreshNeeded
  /\ cli' = IF RetryCount < MAX_RETRIES
            THEN [cli EXCEPT !.pc = "retry_prompt", !.auth_status = "NETWORK_ERROR",
                             !.retry_count = RetryCount]
            ELSE Refused(cli, "NETWORK_ERROR")
  /\ file' = RefreshSent.file
  /\ UNCHANGED <<now, ticks, env, req, issued, consumed, obs, fileIO, loginVars, authVars,
                 proxyVars>>

\* the retry prompt's choice 2: return to the main menu
RetryDeclined ==
  /\ cli.pc = "retry_prompt"
  /\ cli' = [cli EXCEPT !.pc = "menu", !.retry_count = 0]
  /\ UNCHANGED <<now, ticks, env, file, req, issued, consumed, obs, fileIO, loginVars, authVars,
                 proxyVars>>

\* the server thread: TcpListener::bind(&bind_addr).await.expect("Failed to
\* bind"), then axum::serve
ServerBind(i) ==
  /\ cli.server[i] = "spawned"
  /\ cli' = [cli EXCEPT !.server[i] = IF Listening = {} THEN "listening" ELSE "panicked"]
  /\ UNCHANGED <<now, ticks, env, file, req, issued, consumed, obs, fileIO, loginVars, authVars,
                 proxyVars>>

\* start_proxy_server returns Ok(true) after its sleep; run sets server_running
StartReturns ==
  /\ cli.pc = "sleeping"
  /\ cli' = [cli EXCEPT !.pc = "menu", !.server_running = TRUE]
  /\ UNCHANGED <<now, ticks, env, file, req, issued, consumed, obs, fileIO, loginVars, authVars,
                 proxyVars>>

\* run's selection 0 while server_running: stop_proxy_server(), then
\* server_running = false
StopProxyServer ==
  /\ cli.pc = "menu"
  /\ cli.server_running
  /\ cli' = [(IF cli.server_handle = None THEN cli ELSE DropHandle(cli))
               EXCEPT !.server_running = FALSE]
  /\ UNCHANGED <<now, ticks, env, file, req, issued, consumed, obs, fileIO, loginVars, authVars,
                 proxyVars>>

CliFileChoices ==
  {AbsentFile,
   JsonFile(TokenData("a9", "r9", T0 + 3600)),
   JsonFile(TokenData("a9", "r9", T0 + 1)),
   JsonFile(TokenData("a9", "r9", T0 - 10))}

InitCli ==
  /\ now = T0
  /\ ticks = 0
  /\ env = Env(NoVar, NoVar, NoVar, NoVar)
  /\ file \in CliFileChoices
  /\ req = [p \in Procs |-> IdleReq]
  /\ issued = 0
  /\ consumed = {}
  /\ obs = NoObs
  /\ FileIOIdle
  /\ LoginIdle
  /\ AuthIdle
  /\ ProxyIdle
  /\ cli = ConsoleAtMenu

NextCli ==
  \/ Tick
  \/ StartRefused
  \/ StartValid
  \/ StartRefreshed
  \/ StartRefreshFailed
  \/ StartNetworkError
  \/ RetryDeclined
  \/ \E i \in ServerThreads : ServerBind(i)
  \/ StartReturns
  \/ StopProxyServer

SpecCli == InitCli /\ [][NextCli]_vars

(***************************************************************************)
(* The token file under concurrent access.  load_tokens is a read followed, *)
(* when it derives a record from the overrides, by fs::write; fs::write is  *)
(* an open that truncates followed by a write.                              *)
(***************************************************************************)
ReadOps == {"load", "status", "is_expired"}

\* what load(), get_status() and is_token_expired() make of a load result
ReadResult(op, l, t) ==
  IF op = "status" THEN TokenStatus(l, t)
  ELSE IF op = "is_expired"
  THEN [expired |-> IF l.k = "some" THEN ExpiredAt(l.data.expires_at, t) ELSE TRUE]
  ELSE l

\* try_load_from_file and the decision of load_tokens
LoadRead(r) ==
  LET l == load_tokens(file, env, now) IN
  /\ rd[r].pc = "idle"
  /\ \A q \in Procs : q < r => rd[q].pc # "idle"
  /\ rd' = [rd EXCEPT ![r] = [pc |-> IF l.file # file THEN "create" ELSE "done",
                               t |-> now, saw |-> file, l |-> l.res, data |-> l.file]]
  /\ stored' = IF \A q \in Procs : rd[q].pc = "idle" THEN file ELSE stored
  /\ UNCHANGED <<now, ticks, env, file, req, issued, consumed, obs, wr, loginVars, authVars, proxyVars,
                 cli>>

\* save_token_data: fs::write opens the file, truncating it
LoadCreate(r) ==
  /\ rd[r].pc = "create"
  /\ file' = EmptyFile
  /\ rd' = [rd EXCEPT ![r].pc = "write"]
  /\ UNCHANGED <<now, ticks, env, req, issued, consumed, obs, stored, wr, loginVars, authVars, proxyVars,
                 cli>>

\* save_token_data: fs::write writes the record
LoadWrite(r) ==
  /\ rd[r].pc = "write"
  /\ file' = rd[r].data
  /\ rd' = [rd EXCEPT ![r].pc = "done"]
  /\ UNCHANGED <<now, ticks, env, req, issued, consumed, obs, stored, wr, loginVars, authVars, proxyVars,
                 cli>>

\* save_tokens after a refresh or an exchange: fs::write opens the file
SaveCreate ==
  /\ wr.pc = "idle"
  /\ \E expires_in \in ResponseExpiresIn :
       wr' = [pc |-> "write",
              data |-> save_tokens(IssuedAccess(1), IssuedRefresh(1),
                                   unwrap_or(expires_in, DefaultExpiresIn), now)]
  /\ file' = EmptyFile
  /\ UNCHANGED <<now, ticks, env, req, issued, consumed, obs, stored, rd, loginVars, authVars, proxyVars,
                 cli>>

\* save_tokens: fs::write writes the record
SaveWrite ==
  /\ wr.pc = "write"
  /\ file' = wr.data
  /\ wr' = [wr EXCEPT !.pc = "done"]
  /\ UNCHANGED <<now, ticks, env, req, issued, consumed, obs, stored, rd, loginVars, authVars, proxyVars,
                 cli>>

\* environments and files of the file-access specification
IOEnvChoices ==
  {Env(NoVar, NoVar, NoVar, NoVar),
   Env(EnvAccess, EnvRefresh, NoVar, NoVar)}

IOFileChoices ==
  {AbsentFile,
   JsonFile(TokenData("a0", "r0", T0 + 61)),
   JsonFile(TokenData("a9", "r9", T0 + 61))}

InitFile ==
  /\ now = T0
  /\ ticks = 0
  /\ env \in IOEnvChoices
  /\ file \in IOFileChoices
  /\ req = [p \in Procs |-> IdleReq]
  /\ issued = 0
  /\ consumed = {}
  /\ obs = NoObs
  /\ FileIOIdle
  /\ LoginIdle
  /\ AuthIdle
  /\ ProxyIdle
  /\ CliIdle

NextFile ==
  \/ Tick
  \/ \E r \in Procs : LoadRead(r)
  \/ \E r \in Procs : LoadCreate(r)
  \/ \E r \in Procs : LoadWrite(r)
  \/ SaveCreate
  \/ SaveWrite

SpecFile == InitFile /\ [][NextFile]_vars

(***************************************************************************)
(* Properties                                                              *)
(***************************************************************************)

\* C1: concurrent callers of get_valid_token that observe the expired
\* credential together send at most one refresh request between them and
\* end with the same result.
C1_SingleFlight ==
  \A p \in Procs : \A q \in req[p].peers :
    /\ ~(req[p].rt.k = "some" /\ req[q].rt.k = "some")
    /\ (req[p].pc = "done" /\ req[q].pc = "done") => req[p].res = req[q].res

\* C2: a get_valid_token call that found the credential expired and whose
\* refresh succeeded returns the access token of the provider's response.
C2_ReturnsRefreshedToken ==
  \A p \in Procs :
    (req[p].pc = "done" /\ req[p].expired /\ req[p].refreshed = "true")
      => req[p].res = req[p].got

\* C3: get_valid_token sends a refresh request only after is_expired() was
\* true; with a record that satisfies now < expires_at - 60 it takes the
\* no-refresh branch, returns that record's access token and sends nothing.
C3_RefreshOnlyWhenExpired ==
  [][\A p \in Procs :
       LET l == load_tokens(file, env, now).res
           usable == l.k = "some" /\ now < l.data.expires_at - 60
       IN
       /\ req'[p].rt.k = "some" => req'[p].expired
       /\ (req[p].pc = "idle" /\ req'[p].pc # "idle" /\ usable)
            => (req'[p].pc = "current" /\ req'[p].rt = NoToken)
       /\ (req[p].pc = "current" /\ req'[p].pc = "done" /\ usable)
            => (req'[p].res = SomeToken(l.data.access_token) /\ req'[p].rt = NoToken)
    ]_vars

C3_Witness ==
  \E p \in Procs :
    /\ req[p].pc = "done"
    /\ ~req[p].expired
    /\ req[p].res.k = "some"
    /\ req[p].res = req[p].seen
    /\ req[p].rt = NoToken

\* C4: refresh() without a refresh token returns false and sends nothing; a
\* non-success HTTP response gives false; a transport failure gives an error;
\* get_valid_token turns false into none and passes the error on.
C4_RefreshOutcomes ==
  \A p \in Procs :
    (req[p].pc = "done" /\ req[p].expired) =>
      /\ req[p].cause = "no_refresh_token"
           => (req[p].rt = NoToken /\ req[p].refreshed = "false" /\ req[p].res = NoToken)
      /\ req[p].cause = "http_error"
           => (req[p].rt.k = "some" /\ req[p].refreshed = "false" /\ req[p].res = NoToken)
      /\ req[p].cause = "transport"
           => (req[p].rt.k = "some" /\ req[p].refreshed = "err" /\ req[p].res = TokenErr)

C4_Witness ==
  \E p, q \in Procs :
    /\ req[p].pc = "done" /\ req[p].cause = "http_error" /\ req[p].res = NoToken
    /\ req[q].pc = "done" /\ req[q].cause = "transport" /\ req[q].res = TokenErr

\* C5 as stated: a refresh that ends in rejection or in a network error has
\* left the persisted record exactly as it was when the refresh began.
C5_FailedRefreshLeavesRecord ==
  \A p \in Procs :
    req[p].cause \in {"http_error", "transport", "bad_body"} => ~req[p].dirty

\* C5 amended: a refresh that does not succeed never stores provider tokens;
\* its only possible write is the override-derived record persisted by the
\* load() that reads the refresh token, and nothing is written once the
\* request has been sent.
C5_FailedRefreshWritesOnlyOverrides ==
  [][\A p \in Procs :
       /\ (req[p].pc = "refresh" /\ req'[p].pc # "refresh")
            => \/ file' = file
               \/ /\ UsableOverrides(env)
                  /\ file'.k = "json"
                  /\ file'.data.access_token = env.access
                  /\ file'.data.refresh_token = env.refresh
       /\ (req[p].pc = "await" /\ req'[p].pc = "done") => file' = file
       /\ (~UsableOverrides(env) /\ req[p].pc \in {"refresh", "await"}
             /\ req'[p].pc \in {"await", "done"} /\ req'[p].pc # req[p].pc)
            => file' = file
    ]_vars

C5_Witness ==
  \E p \in Procs :
    /\ req[p].pc = "done"
    /\ req[p].cause = "http_error"
    /\ req[p].dirty
    /\ file.k = "json"
    /\ file.data.access_token = env.access

\* C6: the load() that follows save(a, r, exp) returns a, r and
\* (time of save) + exp; a successful refresh replaces the whole record and
\* the next load returns the new pair.
C6_SaveLoadRoundTrip ==
  (obs.op = "load" /\ obs.saved.k = "some") =>
    /\ obs.res.k = "some"
    /\ obs.res.data.access_token = obs.saved.data.access_token
    /\ obs.res.data.refresh_token = obs.saved.data.refresh_token
    /\ obs.res.data.expires_at = obs.saved.data.expires_at

\* C7: is_expired() is true exactly when load() yields no record or
\* now >= expires_at - 60 for the record it yields.
C7_IsExpiredIff ==
  [][\A p \in Procs :
       (req[p].pc = "idle" /\ req'[p].pc # "idle") =>
         LET l == load_tokens(file, env, now).res IN
         req'[p].expired <=> (l.k # "some" \/ now >= l.data.expires_at - 60)
    ]_vars

C7_Witness ==
  \E p, q \in Procs :
    /\ req[p].pc # "idle" /\ ~req[p].expired
    /\ req[q].pc # "idle" /\ req[q].expired /\ req[q].seen.k = "some"

\* C8: with both token overrides supplied and non-empty, load() returns the
\* override access token and the override refresh token, whatever the file holds.
C8_OverridesWin ==
  (obs.op = "load" /\ UsableOverrides(env)) =>
    /\ obs.res.k = "some"
    /\ obs.res.data.access_token = env.access
    /\ obs.res.data.refresh_token = env.refresh

\* a direct load_tokens() call that is not the read following a save
LoadStep == obs'.op = "load" /\ obs'.n # obs.n /\ obs'.saved = NoSave

NoAbsoluteExpiry == env.expires_at = NoVar \/ ~ParseI64(env.expires_at).ok
FileMatchesOverride == file.k = "json" /\ file.data.access_token = env.access

C10_DerivedExpiry ==
  [][(LoadStep /\ UsableOverrides(env) /\ ~FileMatchesOverride) =>
       /\ obs'.res.k = "some"
       /\ obs'.res.data.expires_at =
            IF env.expires_at # NoVar /\ ParseI64(env.expires_at).ok
            THEN ParseI64(env.expires_at).val
            ELSE IF env.expires_in # NoVar /\ ParseI64(env.expires_in).ok
            THEN now + ParseI64(env.expires_in).val
            ELSE now + 86400
    ]_vars

C10_Witness ==
  /\ obs.op = "load"
  /\ obs.saved = NoSave
  /\ UsableOverrides(env)
  /\ env.expires_at = "abc"
  /\ env.expires_in = "3600"
  /\ obs.t > T0
  /\ obs.res.k = "some"
  /\ obs.res.data.expires_at = obs.t + 3600

\* C11: when an override is missing or empty, load() returns the record of
\* the persisted file, none when there is no file, and leaves the file as
\* it was.
C11_FallsBackToFile ==
  [][(LoadStep /\ (env.access \in {"<unset>", "", " "} \/ env.refresh \in {"<unset>", "", " "})) =>
       /\ file.k = "json" => obs'.res = OkSome(file.data)
       /\ file.k = "absent" => obs'.res = OkNone
       /\ file' = file
    ]_vars

C11_Witness ==
  /\ obs.op = "load"
  /\ obs.saved = NoSave
  /\ env.access = " "
  /\ env.refresh = "r0"
  /\ obs.res.k = "some"
  /\ file = JsonFile(obs.res.data)

\* C12: a load() that finds the token file holding malformed JSON returns
\* an error, with or without overrides, and does not overwrite the file.
C12_MalformedIsError ==
  [][(LoadStep /\ file.k = "malformed") => (obs'.res = LoadErr /\ file' = file)]_vars

\* C13: a load() that runs while a save() is in progress reads the complete
\* previous record or the complete new one, never an empty or partly
\* written file.
C13_ReadsCompleteRecord ==
  \A r \in Procs : rd[r].pc # "idle" => rd[r].saw.k # "empty"

Readers == {order \in [1..NumProcs -> Procs] : \A i, j \in 1..NumProcs : order[i] = order[j] => i = j}

\* the file left by the reads run one after the other in the given order,
\* each at its own clock reading, starting from file f
RECURSIVE SerialFile(_, _, _)
SerialFile(order, i, f) ==
  IF i > NumProcs THEN f
  ELSE SerialFile(order, i + 1, load_tokens(f, env, rd[order[i]].t).file)

\* the complete records the store held while read r ran: the file r read,
\* or, when r read in the middle of another read's write, the record before
\* the reads and the records being written
StoredStates(r) ==
  IF rd[r].saw.k # "empty" THEN {rd[r].saw}
  ELSE {stored} \cup {rd[q].data : q \in {q \in Procs \ {r} : rd[q].data.k = "json"}}

\* C14: concurrent load, status and is_expired calls, with no save in
\* progress, each return what they return when run alone on the stored
\* record, and leave the record that running them one at a time leaves.
C14_ReadsNeedNoExclusion ==
  (wr.pc = "idle" /\ \A r \in Procs : rd[r].pc = "done") =>
    /\ \A r \in Procs : \E f \in StoredStates(r) : \A op \in ReadOps :
         ReadResult(op, rd[r].l, rd[r].t) = ReadResult(op, load_tokens(f, env, rd[r].t).res, rd[r].t)
    /\ \E order \in Readers : SerialFile(order, 1, stored) = file

C14_Witness ==
  /\ wr.pc = "idle"
  /\ \A r \in Procs : rd[r].pc = "done"
  /\ \E r \in Procs : rd[r].saw.k = "empty" /\ rd[r].t > T0
  /\ file.k = "json"

\* a step of clear_tokens(): the file changes without a load and without a request moving
ClearStep == file' # file /\ obs' = NoObs /\ req' = req

OverridesUnusable == env.access \in {"<unset>", "", " "} \/ env.refresh \in {"<unset>", "", " "}

\* C15: clear() removes the persisted record and leaves the overrides as
\* they are; with no usable overrides, once the record is cleared load()
\* returns none, is_expired() is true and get_valid_token returns none
\* without sending a request; with usable overrides the next load() still
\* returns the override tokens.
C15_ClearRemovesRecord ==
  [][/\ ClearStep => (file'.k = "absent" /\ env' = env)
     /\ (file.k = "absent" /\ OverridesUnusable) =>
          /\ LoadStep => (obs'.res = OkNone /\ file'.k = "absent")
          /\ (req[1].pc = "idle" /\ req'[1].pc # "idle")
               => (req'[1].expired /\ req'[1].pc = "refresh")
          /\ (req[1].pc = "refresh" /\ req'[1].pc # "refresh")
               => (req'[1].pc = "done" /\ req'[1].res = NoToken /\ req'[1].rt = NoToken)
     /\ (file.k = "absent" /\ ~OverridesUnusable /\ LoadStep) =>
          /\ obs'.res.k = "some"
          /\ obs'.res.data.access_token = env.access
          /\ obs'.res.data.refresh_token = env.refresh
    ]_vars

C15_Witness ==
  /\ file.k = "absent"
  /\ OverridesUnusable
  /\ obs.op = "load"
  /\ obs.res = OkNone
  /\ req[1].pc = "done"
  /\ req[1].expired
  /\ req[1].rt = NoToken
  /\ req[1].res = NoToken

\* C16: each authorization_url call replaces the PKCE session with a fresh
\* one; when an exchange_code call has succeeded no session exists; no
\* session is loaded by two successful exchanges.
C16_OneSession ==
  [][/\ sessions' # sessions =>
          /\ pkce' = PkceData(Verifier(sessions'), Verifier(sessions'))
          /\ \A n \in 0..sessions : Verifier(n) # Verifier(sessions')
     /\ (xchg.pc # "idle" /\ xchg'.pc = "idle" /\ xchg'.outcome = "ok") => pkce'.k = "absent"
     /\ \A i, j \in 1..Len(used') : used'[i] = used'[j] => i = j
    ]_vars

C16_Witness ==
  /\ Len(used) = 2
  /\ used[1] # used[2]
  /\ xchg.pc = "idle"
  /\ xchg.outcome = "ok"
  /\ pkce.k = "absent"

\* the input up to its first '#', and what follows that '#'
FirstHash(str) == CHOOSE i \in 1..Len(str) : str[i] = "#" /\ \A j \in 1..(i - 1) : str[j] # "#"
BeforeFirst(str) == SubSeq(str, 1, FirstHash(str) - 1)
AfterFirst(str) == SubSeq(str, FirstHash(str) + 1, Len(str))

ExchangeSends == xchg.pc = "idle" /\ xchg'.pc = "await"

\* C17: exchange_code sends the verifier of the PKCE session if one exists,
\* and otherwise the STATE portion of its input.
C17_VerifierChoice ==
  [][ExchangeSends =>
       xchg'.treq.code_verifier =
         IF pkce.k = "json" THEN pkce.code_verifier ELSE AfterFirst(xchg'.input)
    ]_vars

\* C18: exchange_code sends as code everything before the first '#' of its
\* input and as state everything after it, further '#' included.
C18_SplitOnFirstHash ==
  [][ExchangeSends =>
       /\ xchg'.treq.code = BeforeFirst(xchg'.input)
       /\ xchg'.treq.state = AfterFirst(xchg'.input)
    ]_vars

\* C19: an exchange_code call that fails returns an error and leaves the
\* credential record and the PKCE session as they were; the session is
\* deleted only by a call that has already saved the tokens.
C19_FailedExchangeLeavesState ==
  [][/\ (xchg' # xchg /\ xchg'.outcome = "err") => (file' = file /\ pkce' = pkce)
     /\ ExchangeSends => (file' = file /\ pkce' = pkce)
     /\ (xchg'.pc = "saved" /\ xchg.pc # "saved") => pkce' = pkce
     /\ (xchg' # xchg /\ pkce' # pkce) =>
          /\ xchg.pc = "saved"
          /\ xchg'.outcome = "ok"
          /\ file.k = "json"
          /\ file.data.access_token = xchg.got
          /\ file' = file
    ]_vars

C19_Witness ==
  /\ xchg.pc = "idle"
  /\ xchg.outcome = "err"
  /\ xchg.treq.code # <<>>
  /\ pkce.k = "json"
  /\ issued = 1
  /\ file.k = "json"
  /\ file.data.access_token = IssuedAccess(1)

\* C20 as stated: with a secret configured, a request reaches the message
\* handler only with an authorization header that is "Bearer " followed by
\* exactly the secret, and is answered 401 otherwise; with no secret every
\* request reaches it.
C20_BearerOnly ==
  http.route = "/v1/messages" =>
    /\ api_key.k = "none" => http.answer = "handler"
    /\ api_key.k = "some" =>
         (http.authorization # TextHeader(<<"Bearer ">> \o api_key.key)
            => http.answer \in {"401 Missing API key", "401 Invalid API key"})

\* the header the middleware reads: authorization, else x-api-key
PresentedHeader == IF http.authorization # NoHeader THEN http.authorization ELSE http.x_api_key

\* the value is the secret behind n "Bearer " prefixes
CarriesKey(text, key) ==
  \E n \in 0..Len(text) : text = [i \in 1..n |-> "Bearer "] \o key

\* C20 amended: with a secret configured, a request reaches the message
\* handler only if its authorization header, or its x-api-key header when
\* it has no authorization header, is the secret itself or the secret
\* behind "Bearer " prefixes; a request without a readable header or with
\* another value is answered 401; with no secret every request reaches it.
C20_KeyRequired ==
  http.route = "/v1/messages" =>
    /\ api_key.k = "none" => http.answer = "handler"
    /\ api_key.k = "some" =>
         /\ http.answer = "handler" =>
              (PresentedHeader.k = "text" /\ CarriesKey(PresentedHeader.text, api_key.key))
         /\ PresentedHeader.k # "text" => http.answer = "401 Missing API key"
         /\ (PresentedHeader.k = "text" /\ ~CarriesKey(PresentedHeader.text, api_key.key))
              => http.answer = "401 Invalid API key"

C20_Witness ==
  /\ api_key = SomeKey(<<"k">>)
  /\ http.route = "/v1/messages"
  /\ http.authorization = NoHeader
  /\ http.x_api_key = TextHeader(<<"k">>)
  /\ http.answer = "handler"

(***************************************************************************)
(* The request transformer                                                 *)
(***************************************************************************)
Sanitized == xform.pc \in {"sanitized", "resanitized"}

\* an f32 outside [0, 1]; NaN is inside no range
OutsideUnit(x) == x.nan \/ x.u < 0 \/ x.u > One

\* C26: sanitize removes a top_p outside [0, 1], a top_k that is not positive
\* and an empty tools list, and when extended reasoning is not enabled it
\* returns a top_p inside [0, 1], a positive top_k and a non-empty tools list
\* as they were.
C26_DropsInvalidOnly ==
  Sanitized =>
    LET r == xform.request
        o == xform.out
    IN /\ (r.top_p.k = "some" /\ OutsideUnit(r.top_p.v)) => o.top_p = None
       /\ (r.top_k.k = "some" /\ r.top_k.v <= 0) => o.top_k = None
       /\ (r.tools.k = "some" /\ r.tools.v = <<>>) => o.tools = None
       /\ ~thinking_enabled(r) =>
            /\ (r.top_p.k = "some" /\ ~OutsideUnit(r.top_p.v)) => o.top_p = r.top_p
            /\ (r.top_k.k = "some" /\ r.top_k.v > 0) => o.top_k = r.top_k
            /\ (r.tools.k = "some" /\ r.tools.v # <<>>) => o.tools = r.tools

\* an invalid top_p was dropped next to a top_k and a tools list that were kept
C26_Witness ==
  /\ xform.pc = "sanitized"
  /\ ~thinking_enabled(xform.request)
  /\ xform.request.top_p = Some(F32(One + Epsilon))
  /\ xform.out.top_p = None
  /\ xform.request.top_k = Some(1)
  /\ xform.out.top_k = Some(1)
  /\ xform.request.tools = Some(<<"tool">>)
  /\ xform.out.tools = Some(<<"tool">>)

\* C27 as stated: with extended reasoning enabled the request leaving
\* sanitize has temperature = 1.0, whatever the caller supplied.
C27_TemperatureForced ==
  (Sanitized /\ thinking_enabled(xform.request)) => xform.out.temperature = Some(F32(One))

\* C27: with extended reasoning enabled, a supplied temperature further than
\* f32::EPSILON from 1.0 leaves sanitize as 1.0, one within f32::EPSILON of
\* 1.0 leaves it unchanged, and an absent or NaN temperature leaves it absent.
C27_TemperatureAbsentOrOne ==
  (Sanitized /\ thinking_enabled(xform.request)) =>
    LET t == xform.request.temperature
        o == xform.out.temperature
    IN IF t.k = "none" \/ t.v.nan THEN o = None
       ELSE IF abs(t.v.u - One) > Epsilon THEN o = Some(F32(One))
       ELSE o = t

\* a temperature of 0 was replaced by 1.0
C27_Witness ==
  /\ xform.pc = "sanitized"
  /\ thinking_enabled(xform.request)
  /\ xform.request.temperature = Some(F32(0))
  /\ xform.out.temperature = Some(F32(One))

\* C28: with extended reasoning enabled the request leaving sanitize has no
\* top_k, and its top_p is absent or inside [0.95, 1.0]; a supplied top_p
\* inside [0, 0.95) has become 0.95.
C28_ThinkingTopPTopK ==
  (Sanitized /\ thinking_enabled(xform.request)) =>
    LET p == xform.request.top_p
        o == xform.out
    IN /\ o.top_k = None
       /\ o.top_p = None \/ (~o.top_p.v.nan /\ P95 <= o.top_p.v.u /\ o.top_p.v.u <= One)
       /\ (p.k = "some" /\ ~OutsideUnit(p.v) /\ p.v.u < P95) => o.top_p = Some(F32(P95))

\* a top_p of 0.5 became 0.95 and a supplied top_k was removed
C28_Witness ==
  /\ xform.pc = "sanitized"
  /\ thinking_enabled(xform.request)
  /\ xform.request.top_p = Some(F32(One \div 2))
  /\ xform.out.top_p = Some(F32(P95))
  /\ xform.request.top_k = Some(1)
  /\ xform.out.top_k = None

\* C30: sanitize applied to its own result returns that result, field by field.
C30_Idempotent ==
  xform.pc = "resanitized" =>
    \A field \in DOMAIN xform.out : xform.again[field] = xform.out[field]

\* the first pass changed the request and the second pass has run
C30_Witness ==
  /\ xform.pc = "resanitized"
  /\ thinking_enabled(xform.request)
  /\ xform.out.temperature # xform.request.temperature
  /\ xform.out.top_p # xform.request.top_p
  /\ xform.out.top_k # xform.request.top_k
  /\ xform.out.tools # xform.request.tools

(***************************************************************************)
(* The open routes                                                         *)
(***************************************************************************)
\* C21: what a route outside the api_key_auth layer answers does not depend
\* on the token strings in the store: the answer from the token file and
\* the answer from a file that differs from it only in its token strings
\* are the same.
C21_OpenRoutesHideTokens ==
  http.route \in OpenRoutes => http.answer = twin.answer

(***************************************************************************)
(* The message handler                                                     *)
(***************************************************************************)
Accepted == msg.pc # "none" /\ msg.cause # "gate"
TokenStarted == req[1].pc # "idle"
TokenAcquired == req[1].pc = "done" /\ req[1].res.k = "some" /\ msg.access_token = req[1].res
NormalizationStarted == msg.pc # "none" /\ (msg.sanitized > 0 \/ msg.injected > 0)
Normalized == msg.pc # "none" /\ msg.sanitized = 1 /\ msg.injected = 1
Dispatched == msg.pc # "none" /\ msg.sent # None

\* C22 as stated: the stages of an accepted request run in the order caller
\* authorization, normalization (sanitize, then inject_identity, once each),
\* acquisition of an access token, upstream dispatch, each after the one
\* before it has completed.
C22_NormalizedBeforeToken ==
  /\ NormalizationStarted => Accepted
  /\ TokenStarted => Normalized
  /\ Dispatched => TokenAcquired

\* C22: the stages of an accepted request run in the order caller
\* authorization, acquisition of an access token, normalization (sanitize,
\* then inject_identity, once each), upstream dispatch, each after the one
\* before it has completed.
C22_StagesInOrder ==
  /\ TokenStarted => Accepted
  /\ NormalizationStarted => TokenAcquired
  /\ msg.pc # "none" =>
       /\ msg.sanitized <= 1
       /\ msg.injected <= msg.sanitized
  /\ Dispatched => Normalized

\* a request has been dispatched after a refresh gave it its token
C22_Witness ==
  /\ Dispatched
  /\ Normalized
  /\ TokenAcquired
  /\ req[1].refreshed = "true"
  /\ api_key # NoKey

\* C23: once the request is answered, no usable credential or a rejected
\* refresh has given 401, a transport failure during the refresh or during
\* the dispatch has given 500, and an upstream status outside 2xx has been
\* passed on as it was.
C23_FailureStatuses ==
  (msg.pc = "done" /\ msg.cause \notin {"gate", "panic"}) =>
    /\ req[1].cause \in {"no_refresh_token", "http_error"} => msg.response.status = 401
    /\ req[1].cause = "transport" => msg.response.status = 500
    /\ (msg.upstream # None /\ msg.upstream.v.k = "error") => msg.response.status = 500
    /\ (msg.upstream # None /\ msg.upstream.v.k = "response"
          /\ ~is_success(msg.upstream.v.status)) =>
         msg.response.status = msg.upstream.v.status

\* a rejected refresh has been answered with 401
C23_Witness ==
  /\ msg.pc = "done"
  /\ req[1].cause = "http_error"
  /\ msg.response.status = 401

\* C24: the answer to a request with the streaming flag set has the status
\* code and the content type of the upstream response, and the upstream
\* bytes as its body.
C24_StreamRelayedAsReceived ==
  (msg.pc = "done" /\ msg.received.stream /\ msg.upstream # None
     /\ msg.upstream.v.k = "response") =>
    /\ msg.response.status = msg.upstream.v.status
    /\ msg.response.content_type = msg.upstream.v.content_type
    /\ msg.response.body = msg.upstream.v.body

\* C25: a request that is not streaming and has been dispatched is answered
\* in the end, whether or not the provider answers, because the dispatch is
\* bounded by the configured request timeout.
C25_DispatchCompletes ==
  (msg.pc = "dispatched" /\ ~msg.received.stream) ~> (msg.pc = "done")

\* C29: with extended reasoning enabled the dispatched request has
\* max_tokens >= budget_tokens + 1024: a lower value sent by the caller has
\* become exactly budget_tokens + 1024, any other is as the caller sent it.
C29_MaxTokensCoversBudget ==
  (Dispatched /\ thinking_enabled(msg.received)) =>
    LET budget_tokens == msg.received.thinking.v.budget_tokens
        sent == msg.sent.v.request.max_tokens
    IN /\ sent - min_response_tokens >= budget_tokens
       /\ IF msg.received.max_tokens - min_response_tokens < budget_tokens
          THEN sent - min_response_tokens = budget_tokens
          ELSE sent = msg.received.max_tokens

\* the max_tokens adjustment has run, or has panicked
Adjusted ==
  /\ msg.pc # "none"
  /\ \/ msg.pc \in {"adjusted", "sanitized", "injected", "dispatched"}
     \/ msg.pc = "done" /\ msg.cause \in {"panic", "upstream", "transport"}

\* C38: with extended reasoning enabled, budget_tokens + 1024 is computed
\* without leaving the 32 bits of an i32, and the max_tokens that results is
\* not smaller than budget_tokens.
C38_NoOverflow ==
  (Adjusted /\ thinking_enabled(msg.received)) =>
    /\ ~overflows(msg.received.thinking.v.budget_tokens, min_response_tokens)
    /\ msg.cause # "panic"
    /\ msg.request.max_tokens >= msg.received.thinking.v.budget_tokens

\* C37: sanitize returns model, messages, max_tokens, system, stream and the
\* reasoning parameter as they were, and when extended reasoning is not
\* enabled a temperature that is not NaN as well.
C37_SanitizeFrame ==
  Sanitized =>
    /\ \A field \in {"model", "messages", "max_tokens", "system", "stream", "thinking"} :
         xform.out[field] = xform.request[field]
    /\ DOMAIN xform.out = DOMAIN xform.request
    /\ (~thinking_enabled(xform.request) /\ xform.request.temperature.k = "some"
          /\ ~xform.request.temperature.v.nan) =>
         xform.out.temperature = xform.request.temperature

\* a temperature of 2.0 went through next to parameters that were dropped
C37_Witness ==
  /\ xform.pc = "sanitized"
  /\ ~thinking_enabled(xform.request)
  /\ xform.request.thinking # None
  /\ xform.request.temperature = Some(F32(2 * One))
  /\ xform.out.temperature = Some(F32(2 * One))
  /\ xform.request.top_k = Some(0)
  /\ xform.out.top_k = None
  /\ xform.request.system # None

\* C36: a message request is sent upstream only with the access token that
\* get_valid_token returned to its handler, never when get_valid_token
\* returned none or an error, and the handler sends at most one refresh
\* request and at most one message request.
C36_NoRetries ==
  [][/\ (msg'.pc # "none" /\ msg'.sent # None) =>
          /\ req'[1].pc = "done"
          /\ req'[1].res = SomeToken(msg'.sent.v.access_token)
     /\ (msg'.pc # "none" /\ req'[1].pc = "done" /\ req'[1].res.k # "some") => msg'.sent = None
     /\ (req'[1].pc = "await" /\ req[1].pc # "await") => req[1].rt = NoToken
     /\ (msg'.pc = "dispatched" /\ msg.pc # "dispatched") => msg.sent = None]_vars

\* the provider has answered a request that was sent with a refreshed token
C36_Witness ==
  /\ msg.pc = "done"
  /\ msg.cause = "upstream"
  /\ req[1].refreshed = "true"
  /\ msg.sent.v.access_token = req[1].res.token

(***************************************************************************)
(* The status report                                                       *)
(***************************************************************************)
\* C35: the is_expired that get_status reports is what is_token_expired
\* returns on the same store at the same time.
C35_StatusAgreesWithIsExpired ==
  [][(http'.route = "/auth/status" /\ http' # http) =>
       http'.answer.is_expired = is_token_expired(file, env, now).res]_vars

(***************************************************************************)
(* Login, continued                                                        *)
(***************************************************************************)
\* C34: in every token request that exchange_code sends, the code_verifier
\* field equals the state field.
C34_VerifierIsState ==
  [][ExchangeSends => xchg'.treq.code_verifier = xchg'.treq.state]_vars

(***************************************************************************)
(* Refresh tokens                                                          *)
(***************************************************************************)
\* C33: no refresh request is sent with a refresh token that a successful
\* refresh has consumed before.
C33_NoStaleRefreshToken ==
  [][\A p \in Procs :
       (req[p].pc = "refresh" /\ req'[p].pc = "await") => req'[p].rt.token \notin consumed]_vars
\* the blocks the caller supplied in the system field, a string counting as
\* one text block
SuppliedBlocks(system) ==
  IF system.k = "none" THEN <<>>
  ELSE IF system.v.t = "array" THEN system.v.blocks
  ELSE IF system.v.t = "string" THEN <<TextBlock(system.v.s, Some("ephemeral"))>>
  ELSE <<>>

\* C31: after the identification block is injected the system field is a list
\* that starts with the synthetic block and continues with the caller's blocks
\* in their order, so it is one longer than what the caller supplied.
C31_SystemIsList ==
  xform.pc = "injected" =>
    /\ xform.out.system.k = "some"
    /\ xform.out.system.v.t = "array"
    /\ xform.out.system.v.blocks =
         <<claude_code_spoof_element>> \o SuppliedBlocks(xform.request.system)
    /\ Len(xform.out.system.v.blocks) = Len(SuppliedBlocks(xform.request.system)) + 1
\* the flags of a list, and the flags the caller wrote
Flags(list) == {list[i] : i \in DOMAIN list}
CallerFlags(client_betas) == Flags(client_beta_list(client_betas))

\* the flags of a set in ascending order, each once
RECURSIVE Ascending(_)
Ascending(flags) ==
  IF flags = {} THEN <<>>
  ELSE LET least == CHOOSE a \in flags : \A b \in flags \ {a} : less(a, b) IN
       <<least>> \o Ascending(flags \ {least})

\* C32: the composed header holds the three required flags; when the caller
\* sent a list it is the required flags and the caller's flags together, each
\* once, in ascending order, and so a function of the set of the caller's
\* flags alone.
C32_UnionSortedOnce ==
  xform.pc = "composed" =>
    /\ Flags(required_betas) \subseteq Flags(xform.all_betas)
    /\ xform.beta_header_value = join(xform.all_betas)
    /\ split_comma(xform.beta_header_value) = xform.all_betas
    /\ xform.client_beta_headers.k = "some" =>
         /\ Flags(xform.all_betas) =
              Flags(required_betas) \cup CallerFlags(xform.client_beta_headers.v)
         /\ \A i, j \in DOMAIN xform.all_betas :
              i < j => less(xform.all_betas[i], xform.all_betas[j])
         /\ xform.all_betas =
              Ascending(Flags(required_betas) \cup CallerFlags(xform.client_beta_headers.v))

\* the caller repeated a flag of its own, out of order, next to a required one
C32_Witness ==
  /\ xform.pc = "composed"
  /\ xform.client_beta_headers = Some(<<"z", ",", "b", ",", "z">>)
  /\ Len(xform.all_betas) = 5
\* C39: once stop_proxy_server has dropped the handle no server is listening,
\* at most one server thread listens at any time, and the console reports the
\* server running only while a server thread is listening (or is about to:
\* a thread that has not reached its bind yet counts as up).
Up == {i \in ServerThreads : cli.server[i] \in {"spawned", "listening"}}

C39_StopStops ==
  cli.pc = "menu" =>
    /\ cli.server_handle = None => Listening = {}
    /\ Cardinality(Listening) <= 1
    /\ cli.server_running => Up # {}

====
